---------------------------- MODULE Spec2Model ----------------------------
(***************************************************************************)
(* Model of the battleships puzzle repository: CellState, CellGrid and     *)
(* Puzzle (src/puzzle.py) and the rule-based Solver (src/solver.py).       *)
(*                                                                         *)
(* Conventions.                                                            *)
(*  - A Python Optional is a sequence of length 0 (None) or 1.             *)
(*  - A CellGrid is a record [num_cols, num_rows, grid], grid a function   *)
(*    from <<c, r>> to a CellState name.                                   *)
(*  - A raised ValueError is the string of its message; "" is no error.    *)
(*  - solver.py reads the puzzle through get_num_cols(), get_num_rows()    *)
(*    and get_ship_lengths(), and Puzzle.can_place_ship calls num_rows();  *)
(*    puzzle.py defines num_cols, num_rows and ship_lengths as properties. *)
(*    The model reads these accessors as the fields they name.             *)
(***************************************************************************)
EXTENDS Integers, Sequences, FiniteSets, TLC

VARIABLES args, pc, puzzle, op, err, report, gen, grid

vars == <<args, pc, puzzle, op, err, report, gen, grid>>

-----------------------------------------------------------------------------
(* Bounds of the model *)

MaxCols == 3
MaxRows == 3
MaxShipLength == 3

-----------------------------------------------------------------------------
(* Optional values *)

None == <<>>
Some(x) == <<x>>
IsNone(o) == Len(o) = 0
Get(o) == o[1]

-----------------------------------------------------------------------------
(* class CellState *)

Unknown == "Unknown"
Water == "Water"
OccupiedUnknown == "OccupiedUnknown"
OccupiedWhole == "OccupiedWhole"
OccupiedMid == "OccupiedMid"
OccupiedEndLeft == "OccupiedEndLeft"
OccupiedEndUp == "OccupiedEndUp"
OccupiedEndRight == "OccupiedEndRight"
OccupiedEndDown == "OccupiedEndDown"

CellState == {Unknown, Water, OccupiedUnknown, OccupiedWhole, OccupiedMid,
              OccupiedEndLeft, OccupiedEndUp, OccupiedEndRight,
              OccupiedEndDown}

is_unknown(s) == s = Unknown

is_water(s) == s = Water

is_mid(s) == s = OccupiedMid

is_whole(s) == s = OccupiedWhole

is_end(s) == s \in {OccupiedEndDown, OccupiedEndLeft, OccupiedEndRight,
                    OccupiedEndUp}

\* is_occupied without its last test
is_occupied_with_marker(s) == is_mid(s) \/ is_whole(s) \/ is_end(s)

is_occupied(s) == is_mid(s) \/ is_whole(s) \/ is_end(s) \/ s = OccupiedUnknown

-----------------------------------------------------------------------------
(* class CellGrid *)

\* range(a, b) of Python as a set and as an increasing sequence
range(a, b) == a .. (b - 1)

rangeSeq(a, b) == [i \in 1 .. (IF b > a THEN b - a ELSE 0) |-> a + i - 1]

\* CellGrid.__init__ for num_cols, num_rows >= 1: every cell Unknown
CellGrid(nc, nr) ==
    [num_cols |-> nc, num_rows |-> nr,
     grid |-> [cell \in range(0, nc) \X range(0, nr) |-> Unknown]]

\* _check_in_range testing only the lower limits
check_in_range_lower_only(g, c, r) ==
    IF r < 0 THEN "r out of range"
    ELSE IF c < 0 THEN "c out of range"
    ELSE ""

\* CellGrid._check_in_range: the message of the error raised, "" if none
check_in_range(g, c, r) ==
    IF r < 0 \/ r >= g.num_rows THEN "r out of range"
    ELSE IF c < 0 \/ c >= g.num_cols THEN "c out of range"
    ELSE ""

\* CellGrid.get on a cell in range
get(g, c, r) == g.grid[<<c, r>>]

\* CellGrid.set without expected_state on a cell in range
set(g, c, r, state) == [g EXCEPT !.grid[<<c, r>>] = state]

\* CellGrid.set with expected_state on a cell in range
set_expected(g, c, r, state, expected_state) ==
    IF get(g, c, r) # expected_state THEN g ELSE set(g, c, r, state)


-----------------------------------------------------------------------------
(* class Puzzle: geometry helpers.  self is any record with the fields     *)
(* num_cols and num_rows.                                                  *)

max(a, b) == IF a > b THEN a ELSE b

min(a, b) == IF a < b THEN a ELSE b

\* get_ship_all_cells without the neighbours beyond the far end of the ship
get_ship_all_cells_short(self, ship_length, start_c, start_r, direction) ==
    LET min_c == IF start_c - 1 > 0 THEN start_c - 1 ELSE 0
        min_r == IF start_r - 1 > 0 THEN start_r - 1 ELSE 0
        far_c == IF direction THEN start_c + ship_length - 1 ELSE start_c + 1
        far_r == IF direction THEN start_r + 1 ELSE start_r + ship_length - 1
        max_c == IF far_c < self.num_cols - 1 THEN far_c ELSE self.num_cols - 1
        max_r == IF far_r < self.num_rows - 1 THEN far_r ELSE self.num_rows - 1
    IN  (min_c .. max_c) \X (min_r .. max_r)

\* Puzzle.get_ship_all_cells: the ship and its neighbours, clipped
get_ship_all_cells(self, ship_length, start_c, start_r, direction) ==
    LET min_c == max(start_c - 1, 0)
        min_r == max(start_r - 1, 0)
        max_c == IF direction
                 THEN min(self.num_cols - 1, start_c + ship_length)
                 ELSE min(start_c + 1, self.num_cols - 1)
        max_r == IF direction
                 THEN min(start_r + 1, self.num_rows - 1)
                 ELSE min(self.num_rows - 1, start_r + ship_length)
    IN  range(min_c, max_c + 1) \X range(min_r, max_r + 1)

-----------------------------------------------------------------------------
(* Puzzle.__init__ *)

\* a sequence of CellGrid.set calls <<c, r, state>>, stopping at the first
\* one that raises
RECURSIVE apply_sets(_, _, _)
apply_sets(g, writes, i) ==
    IF i > Len(writes) THEN [grid |-> g, err |-> ""]
    ELSE LET w == writes[i]
             e == check_in_range(g, w[1], w[2])
         IN  IF e # "" THEN [grid |-> g, err |-> e]
             ELSE apply_sets(set(g, w[1], w[2], w[3]), writes, i + 1)

\* lines 209-226: the set calls that draw one ship on the solution grid
ship_marker_sets(ship_length, start_c, start_r, direction) ==
    IF ship_length = 1
    THEN << <<start_c, start_r, OccupiedWhole>> >>
    ELSE IF direction
    THEN LET end_c == start_c + ship_length - 1
             mids == rangeSeq(start_c + 1, end_c - 1)
         IN  << <<start_c, start_r, OccupiedEndLeft>> >>
             \o [i \in 1 .. Len(mids) |-> <<mids[i], start_r, OccupiedMid>>]
             \o << <<end_c, start_r, OccupiedEndRight>> >>
    ELSE LET end_r == start_r + ship_length - 1
             mids == rangeSeq(start_r + 1, end_r - 1)
         IN  << <<start_c, start_r, OccupiedEndUp>> >>
             \o [i \in 1 .. Len(mids) |-> <<start_c, mids[i], OccupiedMid>>]
             \o << <<start_c, end_r, OccupiedEndDown>> >>

\* lines 197-226: the loop over zip(ship_lengths, solution_ships)
RECURSIVE place_solution_ships(_, _, _, _, _)
place_solution_ships(self, solution_grid, ship_lengths, solution_ships, i) ==
    IF i > min(Len(ship_lengths), Len(solution_ships))
    THEN [grid |-> solution_grid, err |-> ""]
    ELSE LET ship_length == ship_lengths[i]
             start_c == solution_ships[i][1]
             start_r == solution_ships[i][2]
             direction == solution_ships[i][3]
             ship_all_cells == get_ship_all_cells(self, ship_length, start_c,
                                                  start_r, direction)
         IN  IF \E cell \in ship_all_cells :
                    is_occupied(get(solution_grid, cell[1], cell[2]))
             THEN [grid |-> solution_grid, err |-> "solutions_ships invalid"]
             ELSE LET res == apply_sets(solution_grid,
                                 ship_marker_sets(ship_length, start_c,
                                                  start_r, direction), 1)
                  IN  IF res.err # "" THEN res
                      ELSE place_solution_ships(self, res.grid, ship_lengths,
                                                solution_ships, i + 1)

\* lines 228-231: every cell still Unknown becomes Water
fill_water(solution_grid) ==
    [solution_grid EXCEPT !.grid =
        [cell \in DOMAIN solution_grid.grid |->
            set_expected(solution_grid, cell[1], cell[2], Water,
                         Unknown).grid[cell]]]

\* lines 234-241: the sums derived from the solution grid
derived_col_sums(solution_grid, num_cols, num_rows) ==
    [i \in 1 .. num_cols |->
        Cardinality({r \in range(0, num_rows) :
                        is_occupied(get(solution_grid, i - 1, r))})]

derived_row_sums(solution_grid, num_cols, num_rows) ==
    [i \in 1 .. num_rows |->
        Cardinality({c \in range(0, num_cols) :
                        is_occupied(get(solution_grid, c, i - 1))})]

\* lines 246-252
known_matches_solution(known_grid, solution_grid) ==
    \A cell \in DOMAIN known_grid.grid :
        ~is_unknown(known_grid.grid[cell])
            => known_grid.grid[cell] = solution_grid.grid[cell]

Raise(msg) == [err |-> msg, puzzle |-> None]

\* lines 185-257, once the arguments have passed the structural checks
build_puzzle(a, known_grid, curr_grid) ==
    LET self == [num_cols |-> a.num_cols, num_rows |-> a.num_rows]
        fields(solution_grid, col_sums, row_sums) ==
            [num_cols |-> a.num_cols, num_rows |-> a.num_rows,
             ship_lengths |-> a.ship_lengths,
             known_grid |-> known_grid, curr_grid |-> curr_grid,
             solution_ships |-> a.solution_ships,
             solution_grid |-> solution_grid,
             col_sums |-> col_sums, row_sums |-> row_sums]
    IN  IF ~IsNone(a.solution_ships)
        THEN LET res == place_solution_ships(self,
                            CellGrid(a.num_cols, a.num_rows), a.ship_lengths,
                            Get(a.solution_ships), 1)
                 solution_grid == fill_water(res.grid)
             IN  IF res.err # "" THEN Raise(res.err)
                 ELSE IF ~known_matches_solution(known_grid, solution_grid)
                 THEN Raise("known_grid does not match solution_grid")
                 ELSE [err |-> "",
                       puzzle |-> Some(fields(Some(solution_grid),
                           derived_col_sums(solution_grid, a.num_cols,
                                            a.num_rows),
                           derived_row_sums(solution_grid, a.num_cols,
                                            a.num_rows)))]
        ELSE [err |-> "",
              puzzle |-> Some(fields(None, Get(a.col_sums), Get(a.row_sums)))]

\* lines 157-158
ship_lengths_error(a) ==
    IF \E i \in DOMAIN a.ship_lengths : a.ship_lengths[i] < 1
    THEN "ships values must be > 0" ELSE ""

\* lines 159-162
grid_size_error(a, known_grid, curr_grid) ==
    IF known_grid.num_rows # a.num_rows \/ known_grid.num_cols # a.num_cols
    THEN "known_grid has non matching size"
    ELSE IF curr_grid.num_rows # a.num_rows
            \/ curr_grid.num_cols # a.num_cols
    THEN "curr_grid has non matching size"
    ELSE ""

\* lines 163-166, with line 163 testing only that something is supplied
sums_or_solution_error_col_missing_only(a) ==
    IF IsNone(a.col_sums) /\ IsNone(a.solution_ships)
    THEN "one of [col_sums, solution_ships] must be set"
    ELSE IF IsNone(a.row_sums) = IsNone(a.solution_ships)
    THEN "one of [row_sums, solution_ships] must be set"
    ELSE ""

\* lines 163-166
sums_or_solution_error(a) ==
    IF IsNone(a.col_sums) = IsNone(a.solution_ships)
    THEN "one of [col_sums, solution_ships] must be set"
    ELSE IF IsNone(a.row_sums) = IsNone(a.solution_ships)
    THEN "one of [row_sums, solution_ships] must be set"
    ELSE ""

\* lines 167-169
solution_size_error(a) ==
    IF ~IsNone(a.solution_ships)
       /\ Len(Get(a.solution_ships)) # Len(a.ship_lengths)
    THEN "solution_ships has non matching size" ELSE ""

\* lines 170-176
col_sums_error(a) ==
    IF IsNone(a.col_sums) THEN ""
    ELSE IF Len(Get(a.col_sums)) # a.num_cols
    THEN "col_sums has non matching size"
    ELSE IF \E i \in DOMAIN Get(a.col_sums) : Get(a.col_sums)[i] < 0
    THEN "col_sums values must be non negative"
    ELSE ""

\* lines 177-183, with the test for negative entries left out
row_sums_error_size_only(a) ==
    IF IsNone(a.row_sums) THEN ""
    ELSE IF Len(Get(a.row_sums)) # a.num_rows
    THEN "row_sums has non matching size"
    ELSE ""

\* lines 177-183
row_sums_error(a) ==
    IF IsNone(a.row_sums) THEN ""
    ELSE IF Len(Get(a.row_sums)) # a.num_rows
    THEN "row_sums has non matching size"
    ELSE IF \E i \in DOMAIN Get(a.row_sums) : Get(a.row_sums)[i] < 0
    THEN "row_sums values must be non negative"
    ELSE ""

\* the first check of a list that raises
RECURSIVE first_error(_, _)
first_error(errors, i) ==
    IF i > Len(errors) THEN ""
    ELSE IF errors[i] # "" THEN errors[i]
    ELSE first_error(errors, i + 1)

\* lines 157-183: the structural checks, in the order of the code
check_arguments(a, known_grid, curr_grid) ==
    first_error(<<ship_lengths_error(a),
                  grid_size_error(a, known_grid, curr_grid),
                  sums_or_solution_error(a),
                  solution_size_error(a),
                  col_sums_error(a),
                  row_sums_error(a)>>, 1)

\* Puzzle.__init__: [err, puzzle]; puzzle is None when the constructor raises
Puzzle__init__(a) ==
    IF a.num_cols < 1 \/ a.num_rows < 1
    THEN Raise("number of columns and rows must be > 0")
    ELSE LET known_grid == IF IsNone(a.known_grid)
                           THEN CellGrid(a.num_cols, a.num_rows)
                           ELSE Get(a.known_grid)
             curr_grid == IF IsNone(a.curr_grid) THEN known_grid
                          ELSE Get(a.curr_grid)
             e == check_arguments(a, known_grid, curr_grid)
         IN  IF e # "" THEN Raise(e)
             ELSE build_puzzle(a, known_grid, curr_grid)

-----------------------------------------------------------------------------
(* class Puzzle: queries and set_cell.  self is the record of a constructed *)
(* puzzle.                                                                  *)

get_col_sum(self, c) == self.col_sums[c + 1]

get_row_sum(self, r) == self.row_sums[r + 1]

get_cell(self, c, r) == get(self.curr_grid, c, r)

get_row_occupied_sum(self, r) ==
    Cardinality({c \in range(0, self.num_cols) :
                    is_occupied(get(self.curr_grid, c, r))})

get_col_occupied_sum(self, c) ==
    Cardinality({r \in range(0, self.num_rows) :
                    is_occupied(get(self.curr_grid, c, r))})

get_row_water_sum(self, r) ==
    Cardinality({c \in range(0, self.num_cols) :
                    is_water(get(self.curr_grid, c, r))})

get_col_water_sum(self, c) ==
    Cardinality({r \in range(0, self.num_rows) :
                    is_water(get(self.curr_grid, c, r))})

\* is_valid without the two tests on the water counts
is_valid_occupied_only(self) ==
    IF \E row \in range(0, self.num_rows) :
           get_row_occupied_sum(self, row) > get_row_sum(self, row)
    THEN FALSE
    ELSE IF \E col \in range(0, self.num_cols) :
           get_col_occupied_sum(self, col) > get_col_sum(self, col)
    THEN FALSE
    ELSE TRUE

\* Puzzle.is_valid
is_valid(self) ==
    IF \E row \in range(0, self.num_rows) :
           get_row_occupied_sum(self, row) > get_row_sum(self, row)
    THEN FALSE
    ELSE IF \E col \in range(0, self.num_cols) :
           get_col_occupied_sum(self, col) > get_col_sum(self, col)
    THEN FALSE
    ELSE IF \E row \in range(0, self.num_rows) :
           get_row_water_sum(self, row)
               > self.num_cols - get_row_sum(self, row)
    THEN FALSE
    ELSE IF \E col \in range(0, self.num_cols) :
           get_col_water_sum(self, col)
               > self.num_rows - get_col_sum(self, col)
    THEN FALSE
    ELSE TRUE

\* is_incorrect without the test of the Water cells
is_incorrect_occupied_only(self) ==
    IF IsNone(self.solution_grid) THEN FALSE
    ELSE \E c \in range(0, self.num_cols) :
             \E r \in range(0, self.num_rows) :
                 /\ is_occupied(get(self.curr_grid, c, r))
                 /\ ~is_occupied(get(Get(self.solution_grid), c, r))

\* Puzzle.is_incorrect
is_incorrect(self) ==
    IF IsNone(self.solution_grid) THEN FALSE
    ELSE \E c \in range(0, self.num_cols) :
             \E r \in range(0, self.num_rows) :
                 LET curr_state == get(self.curr_grid, c, r)
                     solution_state == get(Get(self.solution_grid), c, r)
                 IN  IF is_occupied(curr_state)
                     THEN ~is_occupied(solution_state)
                     ELSE IF is_water(curr_state)
                     THEN ~is_water(solution_state)
                     ELSE FALSE

\* is_solved without the test for OccupiedUnknown cells
is_solved_unknown_only(self) ==
    IF ~is_valid(self) \/ is_incorrect(self) THEN FALSE
    ELSE ~\E c \in range(0, self.num_cols) :
              \E r \in range(0, self.num_rows) :
                  is_unknown(get(self.curr_grid, c, r))

\* Puzzle.is_solved
is_solved(self) ==
    IF ~is_valid(self) \/ is_incorrect(self) THEN FALSE
    ELSE ~\E c \in range(0, self.num_cols) :
              \E r \in range(0, self.num_rows) :
                  \/ is_unknown(get(self.curr_grid, c, r))
                  \/ get(self.curr_grid, c, r) = OccupiedUnknown

\* set_cell accepting any state on a cell known to be occupied
set_cell_no_occupied_test(self, c, r, state) ==
    LET e == check_in_range(self.known_grid, c, r)
    IN  IF e # "" THEN [err |-> e, puzzle |-> self]
        ELSE IF get(self.known_grid, c, r) # OccupiedUnknown
                /\ get(self.known_grid, c, r) # Unknown
        THEN [err |-> "cell is known", puzzle |-> self]
        ELSE [err |-> "",
              puzzle |-> [self EXCEPT !.curr_grid = set(@, c, r, state)]]

\* Puzzle.set_cell: [err, puzzle]; the puzzle is unchanged when it raises
set_cell(self, c, r, state) ==
    LET e == check_in_range(self.known_grid, c, r)
    IN  IF e # "" THEN [err |-> e, puzzle |-> self]
        ELSE IF get(self.known_grid, c, r) = OccupiedUnknown
                /\ ~is_occupied(state)
        THEN [err |-> "cannot set a known-to-be-occupied cell",
              puzzle |-> self]
        ELSE IF get(self.known_grid, c, r) # OccupiedUnknown
                /\ get(self.known_grid, c, r) # Unknown
        THEN [err |-> "cell is known", puzzle |-> self]
        ELSE [err |-> "",
              puzzle |-> [self EXCEPT !.curr_grid = set(@, c, r, state)]]

-----------------------------------------------------------------------------
(* class Puzzle: neighbourhoods and ship geometry, as the lists the code    *)
(* builds                                                                  *)

\* itertools.product of two sequences
product(xs, ys) ==
    [i \in 1 .. (Len(xs) * Len(ys)) |->
        <<xs[((i - 1) \div Len(ys)) + 1], ys[((i - 1) % Len(ys)) + 1]>>]

\* the elements of a sequence of cells that lie inside the grid, in order
RECURSIVE in_grid(_, _, _)
in_grid(self, cells, i) ==
    IF i > Len(cells) THEN <<>>
    ELSE (IF 0 <= cells[i][1] /\ cells[i][1] < self.num_cols
             /\ 0 <= cells[i][2] /\ cells[i][2] < self.num_rows
          THEN <<cells[i]>> ELSE <<>>) \o in_grid(self, cells, i + 1)

\* Puzzle.get_neighbour_cells: the cell and its up to 8 neighbours
get_neighbour_cells(self, c, r) ==
    LET minc == max(c - 1, 0)
        maxc == min(c + 1, self.num_cols - 1)
        minr == max(r - 1, 0)
        maxr == min(r + 1, self.num_rows - 1)
    IN  product(rangeSeq(minc, maxc + 1), rangeSeq(minr, maxr + 1))

\* Puzzle.get_nondiagonal_neighbour_cells
get_nondiagonal_neighbour_cells(self, c, r) ==
    in_grid(self, <<<<c + 1, r>>, <<c - 1, r>>, <<c, r + 1>>, <<c, r - 1>>>>, 1)

\* Puzzle.get_diagonal_neighbour_cells
get_diagonal_neighbour_cells(self, c, r) ==
    in_grid(self, product(<<c - 1, c + 1>>, <<r - 1, r + 1>>), 1)

\* Puzzle.strip_out_of_bound_cells
strip_out_of_bound_cells(self, cells) == in_grid(self, cells, 1)

\* Puzzle.get_ship_cells, for a ship that fits in the grid
get_ship_cells(self, ship_length, start_c, start_r, direction) ==
    IF direction
    THEN [i \in 1 .. ship_length |-> <<start_c + (i - 1), start_r>>]
    ELSE [i \in 1 .. ship_length |-> <<start_c, start_r + (i - 1)>>]

\* Puzzle.get_ship_neighbour_cells: the cells the generator yields
get_ship_neighbour_cells(self, ship_length, start_c, start_r, direction) ==
    LET min_c == max(start_c - 1, 0)
        min_r == max(start_r - 1, 0)
        max_c == IF direction
                 THEN min(self.num_cols - 1, start_c + ship_length)
                 ELSE min(start_c + 1, self.num_cols - 1)
        max_r == IF direction
                 THEN min(start_r + 1, self.num_rows - 1)
                 ELSE min(self.num_rows - 1, start_r + ship_length)
        cols == rangeSeq(min_c, max_c + 1)
        rows == rangeSeq(min_r, max_r + 1)
    IN  IF direction
        THEN (IF start_r > 0
              THEN [i \in 1 .. Len(cols) |-> <<cols[i], start_r - 1>>]
              ELSE <<>>)
             \o (IF start_r + 1 < self.num_rows
                 THEN [i \in 1 .. Len(cols) |-> <<cols[i], start_r + 1>>]
                 ELSE <<>>)
             \o (IF start_c > 0 THEN <<<<start_c - 1, start_r>>>> ELSE <<>>)
             \o (IF start_c + ship_length < self.num_cols
                 THEN <<<<start_c + ship_length, start_r>>>> ELSE <<>>)
        ELSE (IF start_c > 0
              THEN [i \in 1 .. Len(rows) |-> <<start_c - 1, rows[i]>>]
              ELSE <<>>)
             \o (IF start_c + 1 < self.num_cols
                 THEN [i \in 1 .. Len(rows) |-> <<start_c + 1, rows[i]>>]
                 ELSE <<>>)
             \o (IF start_r > 0 THEN <<<<start_c, start_r - 1>>>> ELSE <<>>)
             \o (IF start_r + ship_length < self.num_rows
                 THEN <<<<start_c, start_r + ship_length>>>> ELSE <<>>)

\* Puzzle.can_place_ship
can_place_ship(self, ship_length, start_c, start_r, direction) ==
    IF 0 > start_r \/ start_r >= self.num_rows THEN FALSE
    ELSE IF 0 > start_c \/ start_c >= self.num_cols THEN FALSE
    ELSE IF direction /\ start_c + ship_length > self.num_cols THEN FALSE
    ELSE IF direction /\ get_row_sum(self, start_r) < ship_length THEN FALSE
    ELSE IF ~direction /\ start_r + ship_length > self.num_rows THEN FALSE
    ELSE IF ~direction /\ get_col_sum(self, start_c) < ship_length THEN FALSE
    ELSE LET ship_cells == get_ship_cells(self, ship_length, start_c,
                                          start_r, direction)
             neighbour_cells == get_ship_neighbour_cells(self, ship_length,
                                    start_c, start_r, direction)
         IN  IF \E i \in DOMAIN ship_cells :
                    is_water(get_cell(self, ship_cells[i][1],
                                      ship_cells[i][2]))
             THEN FALSE
             ELSE IF \E i \in DOMAIN neighbour_cells :
                    is_occupied(get_cell(self, neighbour_cells[i][1],
                                         neighbour_cells[i][2]))
             THEN FALSE
             ELSE TRUE

-----------------------------------------------------------------------------
(* class Solver.  self is the puzzle record the solver holds.              *)

\* PuzzleSolveStep.__init__; desc is the name of the rule that made the step
PuzzleSolveStep(desc, solved_cells) ==
    [desc |-> desc, solved_cells |-> solved_cells]

none_found == PuzzleSolveStep("none found", <<>>)

\* the least element of a non-empty set of integers
first_of(S) == CHOOSE x \in S : \A y \in S : x <= y

\* the cells in the order of the loops "for c ...: for r ...:"
scan_cells(self) ==
    product(rangeSeq(0, self.num_cols), rangeSeq(0, self.num_rows))

\* the rows of the Unknown cells of column c, and the columns of those of row r
unknown_cells_of_col(self, c) ==
    SelectSeq(rangeSeq(0, self.num_rows),
              LAMBDA r : is_unknown(get_cell(self, c, r)))

unknown_cells_of_row(self, r) ==
    SelectSeq(rangeSeq(0, self.num_cols),
              LAMBDA c : is_unknown(get_cell(self, c, r)))

col_assignments(c, rows, state) ==
    [i \in 1 .. Len(rows) |-> <<c, rows[i], state>>]

row_assignments(r, cols, state) ==
    [i \in 1 .. Len(cols) |-> <<cols[i], r, state>>]

cell_assignments(cells, state) ==
    [i \in 1 .. Len(cells) |-> <<cells[i][1], cells[i][2], state>>]

\* solve_line_occupied_total_reached with the loop over the rows first
solve_line_occupied_total_reached_rows_first(self) ==
    LET cols == {c \in range(0, self.num_cols) :
                    /\ Len(unknown_cells_of_col(self, c)) > 0
                    /\ get_col_occupied_sum(self, c) = get_col_sum(self, c)}
        rows == {r \in range(0, self.num_rows) :
                    /\ Len(unknown_cells_of_row(self, r)) > 0
                    /\ get_row_occupied_sum(self, r) = get_row_sum(self, r)}
    IN  IF rows # {}
        THEN PuzzleSolveStep("solve_line_occupied_total_reached",
                 row_assignments(first_of(rows),
                     unknown_cells_of_row(self, first_of(rows)), Water))
        ELSE IF cols # {}
        THEN PuzzleSolveStep("solve_line_occupied_total_reached",
                 col_assignments(first_of(cols),
                     unknown_cells_of_col(self, first_of(cols)), Water))
        ELSE none_found

\* Solver.solve_line_occupied_total_reached
solve_line_occupied_total_reached(self) ==
    LET cols == {c \in range(0, self.num_cols) :
                    /\ Len(unknown_cells_of_col(self, c)) > 0
                    /\ get_col_occupied_sum(self, c) = get_col_sum(self, c)}
        rows == {r \in range(0, self.num_rows) :
                    /\ Len(unknown_cells_of_row(self, r)) > 0
                    /\ get_row_occupied_sum(self, r) = get_row_sum(self, r)}
    IN  IF cols # {}
        THEN PuzzleSolveStep("solve_line_occupied_total_reached",
                 col_assignments(first_of(cols),
                     unknown_cells_of_col(self, first_of(cols)), Water))
        ELSE IF rows # {}
        THEN PuzzleSolveStep("solve_line_occupied_total_reached",
                 row_assignments(first_of(rows),
                     unknown_cells_of_row(self, first_of(rows)), Water))
        ELSE none_found

\* solve_line_unknowns_total_reached with the loop over the rows first
solve_line_unknowns_total_reached_rows_first(self) ==
    LET cols == {c \in range(0, self.num_cols) :
                    /\ Len(unknown_cells_of_col(self, c)) > 0
                    /\ Len(unknown_cells_of_col(self, c))
                         + get_col_occupied_sum(self, c)
                           = get_col_sum(self, c)}
        rows == {r \in range(0, self.num_rows) :
                    /\ Len(unknown_cells_of_row(self, r)) > 0
                    /\ Len(unknown_cells_of_row(self, r))
                         + get_row_occupied_sum(self, r)
                           = get_row_sum(self, r)}
    IN  IF rows # {}
        THEN PuzzleSolveStep("solve_line_unknowns_total_reached",
                 row_assignments(first_of(rows),
                     unknown_cells_of_row(self, first_of(rows)),
                     OccupiedUnknown))
        ELSE IF cols # {}
        THEN PuzzleSolveStep("solve_line_unknowns_total_reached",
                 col_assignments(first_of(cols),
                     unknown_cells_of_col(self, first_of(cols)),
                     OccupiedUnknown))
        ELSE none_found

\* Solver.solve_line_unknowns_total_reached
solve_line_unknowns_total_reached(self) ==
    LET cols == {c \in range(0, self.num_cols) :
                    /\ Len(unknown_cells_of_col(self, c)) > 0
                    /\ Len(unknown_cells_of_col(self, c))
                         + get_col_occupied_sum(self, c)
                           = get_col_sum(self, c)}
        rows == {r \in range(0, self.num_rows) :
                    /\ Len(unknown_cells_of_row(self, r)) > 0
                    /\ Len(unknown_cells_of_row(self, r))
                         + get_row_occupied_sum(self, r)
                           = get_row_sum(self, r)}
    IN  IF cols # {}
        THEN PuzzleSolveStep("solve_line_unknowns_total_reached",
                 col_assignments(first_of(cols),
                     unknown_cells_of_col(self, first_of(cols)),
                     OccupiedUnknown))
        ELSE IF rows # {}
        THEN PuzzleSolveStep("solve_line_unknowns_total_reached",
                 row_assignments(first_of(rows),
                     unknown_cells_of_row(self, first_of(rows)),
                     OccupiedUnknown))
        ELSE none_found

\* the Unknown cells of a list of cells, in order
unknown_among(self, cells) ==
    SelectSeq(cells, LAMBDA cell : is_unknown(get_cell(self, cell[1], cell[2])))

\* the number of cells of a list that are occupied
occupied_count(self, cells) ==
    Cardinality({i \in DOMAIN cells :
                    is_occupied(get_cell(self, cells[i][1], cells[i][2]))})

\* the refinement with each end marker named after the side of the occupied
\* neighbour
ship_state_update_neighbour_side(self, c, r) ==
    LET nondiagonal_neighbours == get_nondiagonal_neighbour_cells(self, c, r)
        state_of(i) == get_cell(self, nondiagonal_neighbours[i][1],
                                nondiagonal_neighbours[i][2])
    IN  IF \A i \in DOMAIN nondiagonal_neighbours : is_water(state_of(i))
        THEN Some(OccupiedWhole)
        ELSE IF occupied_count(self, nondiagonal_neighbours) = 2
        THEN Some(OccupiedMid)
        ELSE IF /\ occupied_count(self, nondiagonal_neighbours) = 1
                /\ \A i \in DOMAIN nondiagonal_neighbours :
                       ~is_unknown(state_of(i))
        THEN IF c > 0 /\ is_occupied(get_cell(self, c - 1, r))
             THEN Some(OccupiedEndLeft)
             ELSE IF r > 0 /\ is_occupied(get_cell(self, c, r - 1))
             THEN Some(OccupiedEndUp)
             ELSE IF c + 1 < self.num_cols
                     /\ is_occupied(get_cell(self, c + 1, r))
             THEN Some(OccupiedEndRight)
             ELSE IF r + 1 < self.num_rows
                     /\ is_occupied(get_cell(self, c, r + 1))
             THEN Some(OccupiedEndDown)
             ELSE None
        ELSE None

\* lines 227-269: the refinement of the OccupiedUnknown cell (c, r), None if
\* no condition is met
ship_state_update(self, c, r) ==
    LET nondiagonal_neighbours == get_nondiagonal_neighbour_cells(self, c, r)
        state_of(i) == get_cell(self, nondiagonal_neighbours[i][1],
                                nondiagonal_neighbours[i][2])
    IN  IF \A i \in DOMAIN nondiagonal_neighbours : is_water(state_of(i))
        THEN Some(OccupiedWhole)
        ELSE IF occupied_count(self, nondiagonal_neighbours) = 2
        THEN Some(OccupiedMid)
        ELSE IF /\ occupied_count(self, nondiagonal_neighbours) = 1
                /\ \A i \in DOMAIN nondiagonal_neighbours :
                       ~is_unknown(state_of(i))
        THEN IF c > 0 /\ is_occupied(get_cell(self, c - 1, r))
             THEN Some(OccupiedEndRight)
             ELSE IF r > 0 /\ is_occupied(get_cell(self, c, r - 1))
             THEN Some(OccupiedEndDown)
             ELSE IF c + 1 < self.num_cols
                     /\ is_occupied(get_cell(self, c + 1, r))
             THEN Some(OccupiedEndLeft)
             ELSE IF r + 1 < self.num_rows
                     /\ is_occupied(get_cell(self, c, r + 1))
             THEN Some(OccupiedEndUp)
             ELSE None
        ELSE None

\* Solver.solve_ship_state_updates
solve_ship_state_updates(self) ==
    LET cells == scan_cells(self)
        hits == {i \in DOMAIN cells :
                    /\ get_cell(self, cells[i][1], cells[i][2])
                           = OccupiedUnknown
                    /\ ~IsNone(ship_state_update(self, cells[i][1],
                                                 cells[i][2]))}
    IN  IF hits = {} THEN none_found
        ELSE LET cell == cells[first_of(hits)]
             IN  PuzzleSolveStep("solve_ship_state_updates",
                     <<<<cell[1], cell[2],
                         Get(ship_state_update(self, cell[1], cell[2]))>>>>)

\* solve_ship_diagonals looking at all the neighbours of the occupied cell
solve_ship_diagonals_all_neighbours(self) ==
    LET cells == scan_cells(self)
        unknown_cells(i) ==
            unknown_among(self, get_neighbour_cells(self,
                                    cells[i][1], cells[i][2]))
        hits == {i \in DOMAIN cells :
                    /\ is_occupied(get_cell(self, cells[i][1], cells[i][2]))
                    /\ Len(unknown_cells(i)) > 0}
    IN  IF hits = {} THEN none_found
        ELSE PuzzleSolveStep("solve_ship_diagonals",
                 cell_assignments(unknown_cells(first_of(hits)), Water))

\* Solver.solve_ship_diagonals
solve_ship_diagonals(self) ==
    LET cells == scan_cells(self)
        unknown_cells(i) ==
            unknown_among(self, get_diagonal_neighbour_cells(self,
                                    cells[i][1], cells[i][2]))
        hits == {i \in DOMAIN cells :
                    /\ is_occupied(get_cell(self, cells[i][1], cells[i][2]))
                    /\ Len(unknown_cells(i)) > 0}
    IN  IF hits = {} THEN none_found
        ELSE PuzzleSolveStep("solve_ship_diagonals",
                 cell_assignments(unknown_cells(first_of(hits)), Water))

\* solve_ship_1_around looking at the orthogonal neighbours only
solve_ship_1_around_orthogonal(self) ==
    LET cells == scan_cells(self)
        unknown_cells(i) ==
            unknown_among(self, get_nondiagonal_neighbour_cells(self, cells[i][1],
                                                    cells[i][2]))
        hits == {i \in DOMAIN cells :
                    /\ is_whole(get_cell(self, cells[i][1], cells[i][2]))
                    /\ Len(unknown_cells(i)) > 0}
    IN  IF hits = {} THEN none_found
        ELSE PuzzleSolveStep("solve_ship_1_around",
                 cell_assignments(unknown_cells(first_of(hits)), Water))

\* Solver.solve_ship_1_around
solve_ship_1_around(self) ==
    LET cells == scan_cells(self)
        unknown_cells(i) ==
            unknown_among(self, get_neighbour_cells(self, cells[i][1],
                                                    cells[i][2]))
        hits == {i \in DOMAIN cells :
                    /\ is_whole(get_cell(self, cells[i][1], cells[i][2]))
                    /\ Len(unknown_cells(i)) > 0}
    IN  IF hits = {} THEN none_found
        ELSE PuzzleSolveStep("solve_ship_1_around",
                 cell_assignments(unknown_cells(first_of(hits)), Water))

\* end_around with the ship continuing on the side the marker is named after
end_around_marker_side(self, end_c, end_r) ==
    LET state == get_cell(self, end_c, end_r)
        expected_water_cells ==
            IF state = OccupiedEndUp
            THEN <<<<end_c, end_r + 1>>, <<end_c + 1, end_r>>,
                   <<end_c - 1, end_r>>>>
            ELSE IF state = OccupiedEndDown
            THEN <<<<end_c, end_r - 1>>, <<end_c + 1, end_r>>,
                   <<end_c - 1, end_r>>>>
            ELSE IF state = OccupiedEndRight
            THEN <<<<end_c - 1, end_r>>, <<end_c, end_r + 1>>,
                   <<end_c, end_r - 1>>>>
            ELSE <<<<end_c + 1, end_r>>, <<end_c, end_r + 1>>,
                   <<end_c, end_r - 1>>>>
        expected_occupied_cell ==
            IF state = OccupiedEndUp THEN <<end_c, end_r - 1>>
            ELSE IF state = OccupiedEndDown THEN <<end_c, end_r + 1>>
            ELSE IF state = OccupiedEndRight THEN <<end_c + 1, end_r>>
            ELSE <<end_c - 1, end_r>>
    IN  cell_assignments(
            unknown_among(self,
                strip_out_of_bound_cells(self, expected_water_cells)), Water)
        \o cell_assignments(
            unknown_among(self,
                in_grid(self, <<expected_occupied_cell>>, 1)),
            OccupiedUnknown)

\* lines 311-355: the assignments deduced from the end marker at (end_c, end_r)
end_around(self, end_c, end_r) ==
    LET state == get_cell(self, end_c, end_r)
        expected_water_cells ==
            IF state = OccupiedEndDown
            THEN <<<<end_c, end_r + 1>>, <<end_c + 1, end_r>>,
                   <<end_c - 1, end_r>>>>
            ELSE IF state = OccupiedEndUp
            THEN <<<<end_c, end_r - 1>>, <<end_c + 1, end_r>>,
                   <<end_c - 1, end_r>>>>
            ELSE IF state = OccupiedEndLeft
            THEN <<<<end_c - 1, end_r>>, <<end_c, end_r + 1>>,
                   <<end_c, end_r - 1>>>>
            ELSE <<<<end_c + 1, end_r>>, <<end_c, end_r + 1>>,
                   <<end_c, end_r - 1>>>>
        expected_occupied_cell ==
            IF state = OccupiedEndDown THEN <<end_c, end_r - 1>>
            ELSE IF state = OccupiedEndUp THEN <<end_c, end_r + 1>>
            ELSE IF state = OccupiedEndLeft THEN <<end_c + 1, end_r>>
            ELSE <<end_c - 1, end_r>>
    IN  cell_assignments(
            unknown_among(self,
                strip_out_of_bound_cells(self, expected_water_cells)), Water)
        \o cell_assignments(
            unknown_among(self,
                in_grid(self, <<expected_occupied_cell>>, 1)),
            OccupiedUnknown)

\* Solver.solve_ship_end_around
solve_ship_end_around(self) ==
    LET cells == scan_cells(self)
        hits == {i \in DOMAIN cells :
                    /\ is_end(get_cell(self, cells[i][1], cells[i][2]))
                    /\ Len(end_around(self, cells[i][1], cells[i][2])) > 0}
    IN  IF hits = {} THEN none_found
        ELSE PuzzleSolveStep("solve_ship_end_around",
                 end_around(self, cells[first_of(hits)][1],
                            cells[first_of(hits)][2]))

\* Solver.__init__: the distinct ship lengths, sorted
RECURSIVE sorted(_)
sorted(S) ==
    IF S = {} THEN <<>> ELSE <<first_of(S)>> \o sorted(S \ {first_of(S)})

ship_length_modes(self) ==
    sorted({self.ship_lengths[i] : i \in DOMAIN self.ship_lengths})

\* Solver.__init__ counting one ship for each length
ship_lengths_dict_one_each(self) ==
    [length \in {self.ship_lengths[i] : i \in DOMAIN self.ship_lengths} |->
        1]

\* Solver.__init__: the number of ships of each length
ship_lengths_dict(self) ==
    [length \in {self.ship_lengths[i] : i \in DOMAIN self.ship_lengths} |->
        Cardinality({i \in DOMAIN self.ship_lengths :
                        self.ship_lengths[i] = length})]

\* the candidates (c, r, direction) in the order of the loops of lines 372-374
placements(self) ==
    LET q == product(scan_cells(self), <<TRUE, FALSE>>)
    IN  [i \in 1 .. Len(q) |-> <<q[i][1][1], q[i][1][2], q[i][2]>>]

\* Solver.calculate_ship_possibles: the new value of ship_possibles
calculate_ship_possibles(self) ==
    [length \in {self.ship_lengths[i] : i \in DOMAIN self.ship_lengths} |->
        SelectSeq(placements(self),
                  LAMBDA t : can_place_ship(self, length, t[1], t[2], t[3]))]

\* lines 394-409 with CellState.Unknown written in place of OccupiedUnknown
place_first_unknown_as_unknown(self, length, possibles) ==
    LET ship_cells(i) == get_ship_cells(self, length, possibles[i][1],
                                        possibles[i][2], possibles[i][3])
        hits == {i \in DOMAIN possibles :
                    Len(unknown_among(self, ship_cells(i))) > 0}
    IN  IF hits = {} THEN none_found
        ELSE PuzzleSolveStep("solve_place_large_ship",
                 cell_assignments(ship_cells(first_of(hits)), Unknown))

\* lines 394-409: the step for the first candidate holding an Unknown cell
place_first_unknown(self, length, possibles) ==
    LET ship_cells(i) == get_ship_cells(self, length, possibles[i][1],
                                        possibles[i][2], possibles[i][3])
        hits == {i \in DOMAIN possibles :
                    Len(unknown_among(self, ship_cells(i))) > 0}
    IN  IF hits = {} THEN none_found
        ELSE PuzzleSolveStep("solve_place_large_ship",
                 cell_assignments(ship_cells(first_of(hits)),
                                  OccupiedUnknown))

\* Solver.solve_place_large_ship, from the i-th length of ship_possibles on
RECURSIVE solve_place_large_ship(_, _, _)
solve_place_large_ship(self, ship_possibles, i) ==
    IF i > Len(ship_length_modes(self)) THEN none_found
    ELSE LET length == ship_length_modes(self)[i]
             step == IF Len(ship_possibles[length])
                            = ship_lengths_dict(self)[length]
                     THEN place_first_unknown(self, length,
                                              ship_possibles[length])
                     ELSE none_found
         IN  IF Len(step.solved_cells) > 0 THEN step
             ELSE solve_place_large_ship(self, ship_possibles, i + 1)

\* the rules of solve_step from the i-th on: the first that solves a cell
RECURSIVE first_rule(_, _)
first_rule(self, i) ==
    LET step == CASE i = 1 -> solve_line_occupied_total_reached(self)
                  [] i = 2 -> solve_line_unknowns_total_reached(self)
                  [] i = 3 -> solve_ship_state_updates(self)
                  [] i = 4 -> solve_ship_diagonals(self)
                  [] i = 5 -> solve_ship_1_around(self)
                  [] i = 6 -> solve_ship_end_around(self)
                  [] i = 7 -> solve_place_large_ship(self,
                                  calculate_ship_possibles(self), 1)
                  [] OTHER -> none_found
    IN  IF i > 7 \/ Len(step.solved_cells) > 0 THEN step
        ELSE first_rule(self, i + 1)

\* solve_step trying solve_ship_diagonals before the other rules
solve_step_diagonals_first(self) ==
    IF ~is_valid(self) THEN PuzzleSolveStep("puzzle is invalid", <<>>)
    ELSE IF is_solved(self) THEN PuzzleSolveStep("puzzle is solved", <<>>)
    ELSE IF Len(solve_ship_diagonals(self).solved_cells) > 0
    THEN solve_ship_diagonals(self)
    ELSE first_rule(self, 1)

\* solve_step without the tests of lines 65-68
solve_step_rules_only(self) == first_rule(self, 1)

\* Solver.solve_step
solve_step(self) ==
    IF ~is_valid(self) THEN PuzzleSolveStep("puzzle is invalid", <<>>)
    ELSE IF is_solved(self) THEN PuzzleSolveStep("puzzle is solved", <<>>)
    ELSE first_rule(self, 1)

\* Solver.do_step from the i-th assignment on: [err, puzzle]; the cells set
\* before a set_cell raises stay set
RECURSIVE do_step(_, _, _)
do_step(self, solved_cells, i) ==
    IF i > Len(solved_cells) THEN [err |-> "", puzzle |-> self]
    ELSE LET res == set_cell(self, solved_cells[i][1], solved_cells[i][2],
                             solved_cells[i][3])
         IN  IF res.err # "" THEN res
             ELSE do_step(res.puzzle, solved_cells, i + 1)

-----------------------------------------------------------------------------
(* Constructor arguments drawn by the specifications *)

Args(nc, nr, lengths, cs, rs, kg, cg, ships) ==
    [num_cols |-> nc, num_rows |-> nr, ship_lengths |-> lengths,
     col_sums |-> cs, row_sums |-> rs, known_grid |-> kg, curr_grid |-> cg,
     solution_ships |-> ships]

\* sequences of length n over S
SeqsOf(S, n) == [1 .. n -> S]

\* sequences of length 1 .. n over S
SeqsUpTo(S, n) == UNION {SeqsOf(S, k) : k \in 1 .. n}

\* the grids of size nc x nr with at most one cell that is not Unknown
GridsOneCell(nc, nr, states) ==
    {CellGrid(nc, nr)} \cup
    {set(CellGrid(nc, nr), cell[1], cell[2], s) :
        cell \in range(0, nc) \X range(0, nr), s \in states}

\* malformed and well-formed argument lists on grids of at most 2 x 2
SumsArgs(n) ==
    {None} \cup {Some(s) : s \in SeqsOf({-1, 1, 2}, n)}
           \cup {Some(s) : s \in SeqsOf({0}, n + 1)}

GridArgs(nc, nr) ==
    {None, Some(CellGrid(max(nc, 1), max(nr, 1))),
     Some(CellGrid(max(nc, 1) + 1, max(nr, 1)))}

\* the sum of a sequence of integers
RECURSIVE SumSeq(_, _)
SumSeq(q, i) == IF i > Len(q) THEN 0 ELSE q[i] + SumSeq(q, i + 1)

\* the grid sizes of the puzzles that are played cell by cell
PlayDims == {<<1, 1>>, <<2, 1>>, <<1, 2>>, <<3, 1>>}

\* the known grids with nothing known or only cell (0, 0) known
KnownCornerArgs(nc, nr) ==
    {None} \cup {Some(set(CellGrid(nc, nr), 0, 0, s)) :
                    s \in CellState \ {Unknown}}

\* one or two ships anywhere on or just outside the grid
ShipStarts(nc, nr) == ((-1) .. nc) \X ((-1) .. nr) \X BOOLEAN

-----------------------------------------------------------------------------
(* State machine *)

InitWith(a) ==
    /\ args = a
    /\ pc = "new"
    /\ puzzle = None
    /\ op = ""
    /\ err = ""
    /\ report = None
    /\ gen = None
    /\ grid = None

\* malformed and well-formed argument lists on grids of at most 2 x 2
InitValidation ==
    \E nc \in 0 .. 2, nr \in 0 .. 2 :
        \E lengths \in {<<>>, <<1>>, <<0, 1>>},
           cs \in SumsArgs(nc), rs \in SumsArgs(nr),
           kg \in GridArgs(nc, nr), cg \in GridArgs(nc, nr),
           ships \in {None, Some(<<>>), Some(<< <<0, 0, TRUE>> >>)} :
            InitWith(Args(nc, nr, lengths, cs, rs, kg, cg, ships))

\* a fleet of one or two ships placed from solution_ships
InitSolution ==
    \E nc \in 1 .. MaxCols, nr \in 1 .. MaxRows, n \in 1 .. 2 :
        \E lengths \in SeqsOf(1 .. MaxShipLength, n),
           ships \in SeqsOf(ShipStarts(nc, nr), n) :
            InitWith(Args(nc, nr, lengths, None, None, None, None,
                          Some(ships)))

\* one ship placed from solution_ships, with at most one cell of known_grid set
InitSolutionKnown ==
    \E nc \in 1 .. MaxCols, nr \in 1 .. MaxRows :
        \E length \in 1 .. MaxShipLength,
           ship \in range(0, nc) \X range(0, nr) \X BOOLEAN,
           kg \in GridsOneCell(nc, nr, CellState \ {Unknown}) :
            InitWith(Args(nc, nr, <<length>>, None, None, Some(kg), None,
                          Some(<<ship>>)))

\* p = Puzzle(...)
\* copy.deepcopy returning its argument
deepcopy_same_object(obj, copy) == obj

\* copy.deepcopy(obj): a new object, here named copy
deepcopy(obj, copy) == copy

\* lines 142-150: the objects behind self._known_grid and self._curr_grid; the
\* caller's grids are the objects "known_grid" and "curr_grid"
grid_objects(a) ==
    LET known_grid == IF IsNone(a.known_grid)
                      THEN "CellGrid(num_cols, num_rows)"
                      ELSE deepcopy("known_grid", "deepcopy(known_grid)")
        curr_grid == IF IsNone(a.curr_grid)
                     THEN deepcopy(known_grid, "deepcopy(self.known_grid)")
                     ELSE deepcopy("curr_grid", "deepcopy(curr_grid)")
    IN  [known_grid |-> known_grid, curr_grid |-> curr_grid]

\* the puzzle after a write to the object behind self._curr_grid has produced
\* self: the known grid shows the write if it is the same object
written_through(a, self) ==
    [self EXCEPT !.known_grid =
        IF grid_objects(a).known_grid = grid_objects(a).curr_grid
        THEN self.curr_grid ELSE @]

\* the caller's grids after that write
caller_grids(a, self) ==
    [a EXCEPT !.known_grid = IF grid_objects(a).curr_grid = "known_grid"
                             THEN Some(self.curr_grid) ELSE @,
              !.curr_grid = IF grid_objects(a).curr_grid = "curr_grid"
                            THEN Some(self.curr_grid) ELSE @]

Construct ==
    /\ pc = "new"
    /\ LET res == Puzzle__init__(args)
       IN  /\ puzzle' = res.puzzle
           /\ err' = res.err
           /\ pc' = IF res.err = "" THEN "ok" ELSE "error"
    /\ op' = "__init__"
    /\ UNCHANGED <<args, report, gen, grid>>

\* puzzles given by sums with equal totals, nothing known
InitPlaySums ==
    \E d \in PlayDims :
        \E cs \in SeqsOf(0 .. d[2], d[1]), rs \in SeqsOf(0 .. d[1], d[2]) :
            /\ SumSeq(cs, 1) = SumSeq(rs, 1)
            /\ \E lengths \in {<<1>>, <<3>>} :
                   InitWith(Args(d[1], d[2], lengths, Some(cs), Some(rs),
                                 None, None, None))

\* puzzles with one known cell and possibly a curr_grid argument
InitPlayKnown ==
    \E d \in {<<1, 1>>, <<2, 1>>} :
        \E kg \in {Some(g) : g \in GridsOneCell(d[1], d[2],
                                                CellState \ {Unknown})},
           cg \in KnownCornerArgs(d[1], d[2]) \cup
                  {Some(CellGrid(d[1], d[2]))} :
            InitWith(Args(d[1], d[2], <<1>>, Some([i \in 1 .. d[1] |-> 1]),
                          Some(<<d[1]>>), kg, cg, None))

\* puzzles given by the placement of one or two ships inside the grid
InitPlaySolution ==
    \E d \in PlayDims, n \in 1 .. 2 :
        \E lengths \in SeqsOf(1 .. MaxShipLength, n),
           ships \in SeqsOf(range(0, d[1]) \X range(0, d[2]) \X BOOLEAN, n) :
            InitWith(Args(d[1], d[2], lengths, None, None, None, None,
                          Some(ships)))

\* the fleets of the puzzles handed to the solver
SolveFleets == {<<1>>, <<2>>, <<1, 2>>}

\* puzzles given by sums that add up to the fleet, with at most one cell set
\* in the known grid or in the curr_grid argument
InitSolveSums ==
    \E nc \in 1 .. MaxCols, nr \in 1 .. MaxRows, lengths \in SolveFleets :
        \E cs \in SeqsOf(0 .. nr, nc), rs \in SeqsOf(0 .. nc, nr) :
            /\ SumSeq(cs, 1) = SumSeq(lengths, 1)
            /\ SumSeq(rs, 1) = SumSeq(lengths, 1)
            /\ \E g \in GridsOneCell(nc, nr, CellState \ {Unknown}) :
                   \/ InitWith(Args(nc, nr, lengths, Some(cs), Some(rs),
                                    Some(g), None, None))
                   \/ InitWith(Args(nc, nr, lengths, Some(cs), Some(rs),
                                    None, Some(g), None))

\* puzzles given by the placement of one or two ships inside the grid
InitSolveSolution ==
    \E nc \in 1 .. MaxCols, nr \in 1 .. MaxRows, n \in 1 .. 2 :
        \E lengths \in SeqsOf(1 .. MaxShipLength, n),
           ships \in SeqsOf(range(0, nc) \X range(0, nr) \X BOOLEAN, n) :
            InitWith(Args(nc, nr, lengths, None, None, None, None,
                          Some(ships)))

\* a 4 x 3 known grid with a ship of length 2 standing in column 0, Water
\* around it, and Unknown cells at the right ends of rows 0 and 2
KnownShipGrid ==
    [num_cols |-> 4, num_rows |-> 3,
     grid |-> [cell \in range(0, 4) \X range(0, 3) |->
                  IF cell = <<0, 0>> THEN OccupiedEndUp
                  ELSE IF cell = <<0, 1>> THEN OccupiedEndDown
                  ELSE IF cell \in {<<2, 0>>, <<3, 0>>, <<2, 2>>, <<3, 2>>}
                       THEN Unknown
                  ELSE Water]]

\* puzzles with two ships of length 2, one of them standing in the known grid
InitSolveKnown ==
    \E top \in 1 .. 2, bottom \in 1 .. 2 :
        InitWith(Args(4, 3, <<2, 2>>, Some(<<2, 0, 1, 1>>),
                      Some(<<top, 1, bottom>>), Some(KnownShipGrid), None,
                      None))

\* p.set_cell(c, r, state)
SetCellCall(c, r, state) ==
    /\ pc = "ok"
    /\ LET res == set_cell(Get(puzzle), c, r, state)
       IN  /\ puzzle' = Some(written_through(args, res.puzzle))
           /\ args' = caller_grids(args, res.puzzle)
           /\ err' = res.err
    /\ op' = "set_cell"
    /\ UNCHANGED <<pc, report, gen, grid>>

SetCell ==
    \E c \in range(0, args.num_cols), r \in range(0, args.num_rows),
       state \in CellState :
        SetCellCall(c, r, state)

\* solve_step applying the report it returns
SolveStep_applying ==
    /\ pc = "ok"
    /\ report' = Some(solve_step(Get(puzzle)))
    /\ puzzle' = Some(do_step(Get(puzzle),
                              solve_step(Get(puzzle)).solved_cells, 1).puzzle)
    /\ op' = "solve_step"
    /\ err' = ""
    /\ UNCHANGED <<args, pc, gen, grid>>

\* report = solver.solve_step()
SolveStep ==
    /\ pc = "ok"
    /\ report' = Some(solve_step(Get(puzzle)))
    /\ op' = "solve_step"
    /\ err' = ""
    /\ UNCHANGED <<args, pc, puzzle, gen, grid>>

\* solver.do_step(report), with the report solve_step has just returned
DoStep ==
    /\ pc = "ok"
    /\ op = "solve_step"
    /\ LET res == do_step(Get(puzzle), Get(report).solved_cells, 1)
       IN  /\ puzzle' = Some(written_through(args, res.puzzle))
           /\ args' = caller_grids(args, res.puzzle)
           /\ err' = res.err
    /\ op' = "do_step"
    /\ UNCHANGED <<pc, report, gen, grid>>

InitCtor == InitValidation \/ InitSolution \/ InitSolutionKnown

NextCtor == Construct

SpecCtor == InitCtor /\ [][NextCtor]_vars

InitPlay == InitPlaySums \/ InitPlayKnown \/ InitPlaySolution

NextPlay == Construct \/ SetCell

SpecPlay == InitPlay /\ [][NextPlay]_vars

InitSolve == InitSolveSums \/ InitSolveSolution \/ InitSolveKnown

NextSolve == Construct \/ SolveStep \/ DoStep

SpecSolve == InitSolve /\ [][NextSolve]_vars

-----------------------------------------------------------------------------
(* Properties of Puzzle.__init__, checked under SpecCtor *)

Constructed == op = "__init__" /\ pc = "ok"

Rejected == op = "__init__" /\ pc = "error"

\* the cells a placement <<start_c, start_r, row_aligned>> covers
ShipExtent(ship_length, ship) ==
    IF ship[3]
    THEN {<<ship[1] + d, ship[2]>> : d \in 0 .. (ship_length - 1)}
    ELSE {<<ship[1], ship[2] + d>> : d \in 0 .. (ship_length - 1)}

Abs(x) == IF x < 0 THEN -x ELSE x

\* two cell sets share a cell or hold orthogonally or diagonally adjacent cells
Touching(A, B) ==
    \E x \in A, y \in B : Abs(x[1] - y[1]) <= 1 /\ Abs(x[2] - y[2]) <= 1

\* solution_ships is supplied, one placement per fleet entry
HasPlacements ==
    /\ op = "__init__"
    /\ ~IsNone(args.solution_ships)
    /\ Len(Get(args.solution_ships)) = Len(args.ship_lengths)

Extent(i) == ShipExtent(args.ship_lengths[i], Get(args.solution_ships)[i])

SomeShipsTouch ==
    \E i, j \in DOMAIN args.ship_lengths : i < j /\ Touching(Extent(i), Extent(j))

GridCells == range(0, args.num_cols) \X range(0, args.num_rows)

\* C6: construction succeeds only if exactly one of {col_sums and row_sums,
\* solution_ships} is supplied; neither, only one of the sums without
\* solution_ships, or solution_ships together with a sum, is rejected.
C6_ExactlyOneConstraintSource ==
    op = "__init__" =>
        LET col == ~IsNone(args.col_sums)
            row == ~IsNone(args.row_sums)
            sol == ~IsNone(args.solution_ships)
        IN  /\ (~col /\ ~row /\ ~sol) => pc = "error"
            /\ (~sol /\ (col # row)) => pc = "error"
            /\ (sol /\ (col \/ row)) => pc = "error"
            /\ pc = "ok" => ((col /\ row /\ ~sol) \/ (sol /\ ~col /\ ~row))

\* only col_sums supplied, on an otherwise well-formed call: rejected
C6_Witness ==
    /\ Rejected
    /\ err = "one of [row_sums, solution_ships] must be set"
    /\ ~IsNone(args.col_sums)
    /\ \A i \in DOMAIN Get(args.col_sums) : Get(args.col_sums)[i] >= 0
    /\ Len(Get(args.col_sums)) = args.num_cols
    /\ IsNone(args.row_sums)
    /\ IsNone(args.solution_ships)

\* C7: construction is rejected when num_cols < 1 or num_rows < 1, a ship
\* length is < 1, known_grid or curr_grid has other dimensions than the
\* puzzle, col_sums or row_sums has the wrong length or a negative entry, or
\* solution_ships has another length than ship_lengths.
C7_StructuralValidation ==
    op = "__init__" =>
        LET BadGrid(g) == /\ ~IsNone(g)
                          /\ \/ Get(g).num_cols # args.num_cols
                             \/ Get(g).num_rows # args.num_rows
            BadSums(sums, n) == /\ ~IsNone(sums)
                                /\ \/ Len(Get(sums)) # n
                                   \/ \E i \in DOMAIN Get(sums) : Get(sums)[i] < 0
        IN  (\/ args.num_cols < 1
             \/ args.num_rows < 1
             \/ \E i \in DOMAIN args.ship_lengths : args.ship_lengths[i] < 1
             \/ BadGrid(args.known_grid)
             \/ BadGrid(args.curr_grid)
             \/ BadSums(args.col_sums, args.num_cols)
             \/ BadSums(args.row_sums, args.num_rows)
             \/ /\ ~IsNone(args.solution_ships)
                /\ Len(Get(args.solution_ships)) # Len(args.ship_lengths))
            => pc = "error"

\* a negative row sum is the only defect of the call, and it is rejected
C7_Witness ==
    /\ Rejected
    /\ err = "row_sums values must be non negative"

\* C8: construction from solution_ships is rejected whenever two ships share
\* a cell or are orthogonally or diagonally adjacent, in every ship order and
\* orientation, and is not rejected for a collision when no two ships touch.
C8_TouchingShipsRejected ==
    HasPlacements =>
        /\ SomeShipsTouch => pc = "error"
        /\ ~SomeShipsTouch => err # "solutions_ships invalid"

\* two ships inside the grid that touch only diagonally: rejected
C8_Witness ==
    /\ HasPlacements
    /\ Rejected
    /\ err = "solutions_ships invalid"
    /\ Len(args.ship_lengths) = 2
    /\ Extent(1) \cup Extent(2) \subseteq GridCells
    /\ \A x \in Extent(1), y \in Extent(2) : x[1] # y[1] /\ x[2] # y[2]

\* C9: construction from solution_ships is rejected whenever the extent of a
\* ship is not entirely inside the grid, a negative start or a start beyond
\* the last column or row included.
C9_OutOfBoundsRejected ==
    HasPlacements =>
        ((\E i \in DOMAIN args.ship_lengths : ~(Extent(i) \subseteq GridCells))
            => pc = "error")

\* a single ship that starts inside the grid and runs over its edge
C9_Witness ==
    /\ HasPlacements
    /\ Rejected
    /\ err \in {"c out of range", "r out of range"}
    /\ Len(args.ship_lengths) = 1
    /\ <<Get(args.solution_ships)[1][1], Get(args.solution_ships)[1][2]>>
           \in GridCells

\* the marker the claim gives the k-th cell (from 0) of a ship
ExpectedMarker(ship_length, row_aligned, k) ==
    IF ship_length = 1 THEN OccupiedWhole
    ELSE IF k = 0
    THEN (IF row_aligned THEN OccupiedEndLeft ELSE OccupiedEndUp)
    ELSE IF k = ship_length - 1
    THEN (IF row_aligned THEN OccupiedEndRight ELSE OccupiedEndDown)
    ELSE OccupiedMid

\* C10: in a puzzle constructed from solution_ships the solution grid holds
\* OccupiedWhole on every length-1 ship, the two end markers of its
\* orientation on the first and last cell of every longer ship, OccupiedMid on
\* every cell strictly between them, and Water on every cell no ship covers.
C10_SolutionGridMarkers ==
    (Constructed /\ ~IsNone(args.solution_ships)) =>
        LET p == Get(puzzle)
            sg == Get(p.solution_grid)
            ships == Get(args.solution_ships)
        IN  /\ \A i \in DOMAIN ships :
                   \A k \in 0 .. (args.ship_lengths[i] - 1) :
                       LET c == IF ships[i][3] THEN ships[i][1] + k
                                ELSE ships[i][1]
                           r == IF ships[i][3] THEN ships[i][2]
                                ELSE ships[i][2] + k
                       IN  get(sg, c, r)
                               = ExpectedMarker(args.ship_lengths[i],
                                                ships[i][3], k)
            /\ \A cell \in GridCells :
                   (\A i \in DOMAIN ships : cell \notin Extent(i))
                       => get(sg, cell[1], cell[2]) = Water

-----------------------------------------------------------------------------
(* Properties of the puzzle while it is played, checked under SpecPlay *)

CurrCells == DOMAIN Get(puzzle).curr_grid.grid

\* C3: in every state reached by construction and set_cell calls, is_solved()
\* is true if and only if is_valid() is true, is_incorrect() is false and no
\* cell of the current grid is Unknown or OccupiedUnknown.
C3_IsSolvedIff ==
    pc = "ok" =>
        (is_solved(Get(puzzle)) <=>
            /\ is_valid(Get(puzzle))
            /\ ~is_incorrect(Get(puzzle))
            /\ \A cell \in CurrCells :
                   Get(puzzle).curr_grid.grid[cell]
                       \notin {Unknown, OccupiedUnknown})

\* a puzzle with a solution, solved by set_cell calls
C3_Witness ==
    /\ pc = "ok"
    /\ op = "set_cell"
    /\ ~IsNone(Get(puzzle).solution_grid)
    /\ is_solved(Get(puzzle))

C5_CurrentAgreesWithKnown ==
    pc = "ok" =>
        \A cell \in CurrCells :
            LET known == Get(puzzle).known_grid.grid[cell]
                curr == Get(puzzle).curr_grid.grid[cell]
            IN  known # Unknown =>
                    \/ curr = known
                    \/ known = OccupiedUnknown /\ is_occupied(curr)

-----------------------------------------------------------------------------
(* Properties of the solver, checked under SpecSolve *)

TerminalStates == {Water, OccupiedWhole, OccupiedMid, OccupiedEndLeft,
                   OccupiedEndUp, OccupiedEndRight, OccupiedEndDown}

\* the number of Unknown cells of a grid
UnknownCount(g) == Cardinality({cell \in DOMAIN g.grid : g.grid[cell] = Unknown})

-----------------------------------------------------------------------------
(* Sums and known cells of a puzzle built from solution_ships, checked      *)
(* under SpecCtor                                                            *)

\* the cells the solution ships cover
Covered == UNION {Extent(i) : i \in DOMAIN args.ship_lengths}

\* C11: in a puzzle constructed from solution_ships, col_sums[c] is the number
\* of cells of column c the ships cover and row_sums[r] the number of cells of
\* row r they cover, so both totals equal the sum of ship_lengths.
C11_DerivedSumsCountShipCells ==
    (Constructed /\ ~IsNone(args.solution_ships)) =>
        LET p == Get(puzzle)
        IN  /\ \A c \in range(0, p.num_cols) :
                   get_col_sum(p, c)
                       = Cardinality({cell \in Covered : cell[1] = c})
            /\ \A r \in range(0, p.num_rows) :
                   get_row_sum(p, r)
                       = Cardinality({cell \in Covered : cell[2] = r})
            /\ SumSeq(p.col_sums, 1) = SumSeq(p.ship_lengths, 1)
            /\ SumSeq(p.row_sums, 1) = SumSeq(p.ship_lengths, 1)

\* the marker the claim gives a cell: that of the ship covering it, or Water
CorrectMarker(cell) ==
    IF cell \in Covered
    THEN LET i == CHOOSE j \in DOMAIN args.ship_lengths : cell \in Extent(j)
             ship == Get(args.solution_ships)[i]
             k == IF ship[3] THEN cell[1] - ship[1] ELSE cell[2] - ship[2]
         IN  ExpectedMarker(args.ship_lengths[i], ship[3], k)
    ELSE Water

\* a call with solution_ships and a known_grid that passes every other check:
\* no sums, no curr_grid, grids of the puzzle's size, ships inside the grid
\* that do not touch
WellFormedSolutionCall ==
    /\ HasPlacements
    /\ IsNone(args.col_sums) /\ IsNone(args.row_sums)
    /\ IsNone(args.curr_grid)
    /\ ~IsNone(args.known_grid)
    /\ args.num_cols >= 1 /\ args.num_rows >= 1
    /\ Get(args.known_grid).num_cols = args.num_cols
    /\ Get(args.known_grid).num_rows = args.num_rows
    /\ \A i \in DOMAIN args.ship_lengths :
           args.ship_lengths[i] >= 1 /\ Extent(i) \subseteq GridCells
    /\ ~SomeShipsTouch

\* C12: construction from solution_ships with a known_grid is rejected if a
\* known cell that is not Unknown differs from the derived solution cell, and
\* succeeds, other checks passing, when every known cell that is not Unknown
\* holds the correct solution marker of that cell.
C12_KnownGridAgainstSolution ==
    /\ (Constructed /\ ~IsNone(args.solution_ships)) =>
           \A cell \in GridCells :
               LET known == Get(puzzle).known_grid.grid[cell]
               IN  known # Unknown
                       => known = Get(Get(puzzle).solution_grid).grid[cell]
    /\ WellFormedSolutionCall =>
           ((\A cell \in GridCells :
                LET known == Get(args.known_grid).grid[cell]
                IN  known # Unknown => known = CorrectMarker(cell))
             => pc = "ok")

\* C13: every constructed puzzle has 0 <= col_sums[c] <= num_rows for every
\* column c and 0 <= row_sums[r] <= num_cols for every row r, whether the
\* sums were supplied or derived from solution_ships.
C13_SumsWithinLineLength ==
    Constructed =>
        LET p == Get(puzzle)
        IN  /\ \A c \in range(0, p.num_cols) :
                   0 <= get_col_sum(p, c) /\ get_col_sum(p, c) <= p.num_rows
            /\ \A r \in range(0, p.num_rows) :
                   0 <= get_row_sum(p, r) /\ get_row_sum(p, r) <= p.num_cols

-----------------------------------------------------------------------------
(* is_valid, is_incorrect and is_solved while the grid is written, checked  *)
(* under SpecPlay                                                            *)

OccupiedStates == {OccupiedUnknown, OccupiedWhole, OccupiedMid,
                   OccupiedEndLeft, OccupiedEndUp, OccupiedEndRight,
                   OccupiedEndDown}

\* the cells of a line of the current grid that hold a state of S
ColCells(c, S) ==
    {cell \in CurrCells : cell[1] = c /\ Get(puzzle).curr_grid.grid[cell] \in S}

RowCells(r, S) ==
    {cell \in CurrCells : cell[2] = r /\ Get(puzzle).curr_grid.grid[cell] \in S}

\* the occupied counts are within the sums; the water counts are within the
\* line length minus the sum
OccupiedWithinSums ==
    /\ \A c \in range(0, args.num_cols) :
           Cardinality(ColCells(c, OccupiedStates)) <= Get(puzzle).col_sums[c + 1]
    /\ \A r \in range(0, args.num_rows) :
           Cardinality(RowCells(r, OccupiedStates)) <= Get(puzzle).row_sums[r + 1]

WaterWithinSums ==
    /\ \A c \in range(0, args.num_cols) :
           Cardinality(ColCells(c, {Water}))
               <= args.num_rows - Get(puzzle).col_sums[c + 1]
    /\ \A r \in range(0, args.num_rows) :
           Cardinality(RowCells(r, {Water}))
               <= args.num_cols - Get(puzzle).row_sums[r + 1]

\* C14: is_valid() is true if and only if, in every row and column of the
\* current grid, the number of occupied cells is at most the target sum and
\* the number of Water cells is at most the line length minus the target sum.
C14_IsValidIff ==
    pc = "ok" =>
        (is_valid(Get(puzzle)) <=> (OccupiedWithinSums /\ WaterWithinSums))

\* after a set_cell the puzzle is not valid only because a line holds too
\* many Water cells
C14_Witness ==
    /\ pc = "ok"
    /\ op = "set_cell"
    /\ err = ""
    /\ OccupiedWithinSums
    /\ ~WaterWithinSums
    /\ ~is_valid(Get(puzzle))

\* C15: is_incorrect() is false when the puzzle has no solution; otherwise it
\* is true if and only if some current cell is occupied where the solution
\* cell is not occupied, or is Water where the solution cell is not Water.
C15_IsIncorrectIff ==
    pc = "ok" =>
        LET p == Get(puzzle)
        IN  IF IsNone(p.solution_grid) THEN ~is_incorrect(p)
            ELSE (is_incorrect(p) <=>
                     \E cell \in CurrCells :
                         LET curr == p.curr_grid.grid[cell]
                             sol == Get(p.solution_grid).grid[cell]
                         IN  \/ curr \in OccupiedStates
                                   /\ sol \notin OccupiedStates
                             \/ curr = Water /\ sol # Water)

\* set_cell has written Water on a ship cell of the solution, and no occupied
\* cell of the current grid disagrees with the solution: is_incorrect() is true
C15_Witness ==
    /\ pc = "ok"
    /\ op = "set_cell"
    /\ err = ""
    /\ ~IsNone(Get(puzzle).solution_grid)
    /\ is_incorrect(Get(puzzle))
    /\ \A cell \in CurrCells :
           Get(puzzle).curr_grid.grid[cell] \in OccupiedStates
               => Get(Get(puzzle).solution_grid).grid[cell] \in OccupiedStates

\* the marker of a cell in the grid drawn by the placements ships of a fleet
PlacementMarker(lengths, ships, cell) ==
    IF \E i \in DOMAIN lengths : cell \in ShipExtent(lengths[i], ships[i])
    THEN LET i == CHOOSE j \in DOMAIN lengths :
                      cell \in ShipExtent(lengths[j], ships[j])
             k == IF ships[i][3] THEN cell[1] - ships[i][1]
                  ELSE cell[2] - ships[i][2]
         IN  ExpectedMarker(lengths[i], ships[i][3], k)
    ELSE Water

\* placements of the fleet inside the grid, no two ships touching
FleetPlacements ==
    {ships \in SeqsOf(GridCells \X BOOLEAN, Len(args.ship_lengths)) :
        LET placed == [i \in DOMAIN ships |->
                          <<ships[i][1][1], ships[i][1][2], ships[i][2]>>]
            extent(i) == ShipExtent(args.ship_lengths[i], placed[i])
        IN  /\ \A i \in DOMAIN ships : extent(i) \subseteq GridCells
            /\ \A i, j \in DOMAIN ships :
                   i < j => ~Touching(extent(i), extent(j))}

\* the complete correct grids of the constructed puzzle: the grid drawn by
\* solution_ships, or every grid drawn by a placement of the fleet whose
\* line counts are the sums
CorrectGrids ==
    IF ~IsNone(args.solution_ships)
    THEN {[cell \in GridCells |->
              PlacementMarker(args.ship_lengths, Get(args.solution_ships),
                              cell)]}
    ELSE LET drawn(ships) ==
                 [cell \in GridCells |->
                     PlacementMarker(args.ship_lengths,
                         [i \in DOMAIN ships |->
                             <<ships[i][1][1], ships[i][1][2], ships[i][2]>>],
                         cell)]
             counts(g) ==
                 /\ \A c \in range(0, args.num_cols) :
                        Cardinality({cell \in GridCells :
                            cell[1] = c /\ g[cell] # Water})
                            = Get(args.col_sums)[c + 1]
                 /\ \A r \in range(0, args.num_rows) :
                        Cardinality({cell \in GridCells :
                            cell[2] = r /\ g[cell] # Water})
                            = Get(args.row_sums)[r + 1]
         IN  {g \in {drawn(ships) : ships \in FleetPlacements} : counts(g)}

\* the current grid holds a correct grid g as far as it is written
WrittenTowards(g) ==
    \A cell \in CurrCells :
        Get(puzzle).curr_grid.grid[cell] \in {Unknown, g[cell]}

NoKnownCells ==
    /\ pc = "ok"
    /\ IsNone(args.known_grid)
    /\ IsNone(args.curr_grid)

\* C16: on a puzzle with no known cells, built from sums or from
\* solution_ships, while a complete correct grid is written cell by cell
\* with set_cell, is_valid() is true after every write, is_solved() is false
\* while a cell is still Unknown and true once the last cell is written.
C16_WritingCorrectGridSolves ==
    NoKnownCells =>
        \A g \in CorrectGrids :
            WrittenTowards(g) =>
                /\ is_valid(Get(puzzle))
                /\ is_solved(Get(puzzle))
                       <=> \A cell \in CurrCells :
                               Get(puzzle).curr_grid.grid[cell] # Unknown

\* C16 for the puzzles built from sums
C16_SumsBuilt ==
    (NoKnownCells /\ IsNone(args.solution_ships)) =>
        \A g \in CorrectGrids :
            WrittenTowards(g) =>
                /\ is_valid(Get(puzzle))
                /\ is_solved(Get(puzzle))
                       <=> \A cell \in CurrCells :
                               Get(puzzle).curr_grid.grid[cell] # Unknown

-----------------------------------------------------------------------------
(* Properties of solve_step and do_step, checked under SpecSolve             *)

\* the report of the rule the spec numbers n, on its own
RuleReport(self, n) ==
    CASE n = 1 -> solve_line_occupied_total_reached(self)
      [] n = 2 -> solve_line_unknowns_total_reached(self)
      [] n = 3 -> solve_ship_state_updates(self)
      [] n = 4 -> solve_ship_diagonals(self)
      [] n = 5 -> solve_ship_1_around(self)
      [] n = 6 -> solve_ship_end_around(self)
      [] n = 7 -> solve_place_large_ship(self, calculate_ship_possibles(self),
                                         1)

\* the rules that yield at least one assignment
ApplicableRules(self) ==
    {n \in 1 .. 7 : Len(RuleReport(self, n).solved_cells) > 0}

\* solve_step has just returned on a puzzle that is valid and not solved
RulesTried ==
    /\ pc = "ok"
    /\ op = "solve_step"
    /\ is_valid(Get(puzzle))
    /\ ~is_solved(Get(puzzle))

-----------------------------------------------------------------------------
(* Creating a Solver, with the attribute names as the source writes them     *)

\* the methods and the properties class Puzzle defines
PuzzleMethods ==
    {"get_col_sum", "get_row_sum", "has_solution", "get_cell",
     "get_solution_cell", "is_cell_known", "is_valid", "is_incorrect",
     "is_solved", "set_cell", "get_row_occupied_sum", "get_col_occupied_sum",
     "get_row_water_sum", "get_col_water_sum", "get_neighbour_cells",
     "get_nondiagonal_neighbour_cells", "get_diagonal_neighbour_cells",
     "get_ship_cells", "get_ship_neighbour_cells", "get_ship_all_cells",
     "strip_out_of_bound_cells", "can_place_ship"}

PuzzleProperties == {"num_cols", "num_rows", "ship_lengths", "col_sums",
                     "row_sums"}

\* the error of the call puzzle.name(...): none for a method, TypeError for a
\* property (its value is called), AttributeError for an undefined name
call_error(name) ==
    IF name \in PuzzleMethods THEN ""
    ELSE IF name \in PuzzleProperties THEN "TypeError"
    ELSE "AttributeError"

\* Solver.__init__: the error it raises; its first statement calls
\* self.puzzle.get_ship_lengths()
Solver__init__(self) == call_error("get_ship_lengths")

\* solver = Solver(p)
NewSolver ==
    /\ pc = "ok"
    /\ op' = "Solver"
    /\ err' = Solver__init__(Get(puzzle))
    /\ UNCHANGED <<args, pc, puzzle, report, gen, grid>>

NextSolverNew == Construct \/ NewSolver

SpecSolverNew == InitSolve /\ [][NextSolverNew]_vars

\* C18: on every constructed puzzle, creating a Solver and calling solve_step
\* completes without raising an error and returns a report.
C18_SolverNeverRaises ==
    (pc = "ok" /\ op = "Solver") => err = ""

-----------------------------------------------------------------------------
(* Frame properties of do_step and solve_step, checked under SpecSolve       *)

\* the cells a report lists
ListedCells(rep) ==
    {<<rep.solved_cells[i][1], rep.solved_cells[i][2]>> :
        i \in DOMAIN rep.solved_cells}

-----------------------------------------------------------------------------
(* generate_solved_puzzles.  args holds num_cols, num_rows and ship_lengths  *)
(* of the call; gen is the generator: the puzzles it has yielded and the     *)
(* position of the loops of try_place_ship_and_continue when it stopped.     *)

\* the names bound where the body of generate_solved_puzzles runs: its
\* parameters, its local names and nested functions, and the names puzzle.py
\* binds at module level
GeneratorScope ==
    {"num_cols", "num_rows", "ship_lengths", "solution_ships",
     "bounding_boxes", "get_ship_bounding_box", "bounding_boxes_overlap",
     "can_place_ship", "can_place", "place_ship", "remove_ship",
     "make_puzzle", "try_place_ship_and_continue", "copy", "itertools",
     "Enum", "CellState", "CellGrid", "Puzzle", "generate_solved_puzzles"}

\* reading a name: NameError unless it is bound
name_error(name) == IF name \in GeneratorScope THEN "" ELSE "NameError"

\* CellGrid.__init__: the error it raises
CellGrid__init__error(num_cols, num_rows) ==
    IF num_cols < 1 \/ num_rows < 1
    THEN "number of columns and rows must be > 0"
    ELSE ""

\* make_puzzle: [err, puzzle].  The grid has a cell whenever CellGrid() has
\* not raised, and cell_state reads occupied_cells for the first cell: the
\* call Puzzle(...) of line 667 is not reached
make_puzzle(num_cols, num_rows, ship_lengths) ==
    IF CellGrid__init__error(num_cols, num_rows) # ""
    THEN Raise(CellGrid__init__error(num_cols, num_rows))
    ELSE Raise(name_error("occupied_cells"))

\* line 677: 0 and 1 are the column-aligned and the row-aligned direction of
\* get_ship_cells
direction_list(ship_length) ==
    IF ship_length > 1 THEN <<FALSE, TRUE>> ELSE <<TRUE>>

\* lines 679-681: the candidates <<x, y, direction>> in the order of the loops
candidates(num_cols, num_rows, ship_length) ==
    LET q == product(product(rangeSeq(0, num_cols), rangeSeq(0, num_rows)),
                     direction_list(ship_length))
    IN  [i \in 1 .. Len(q) |-> <<q[i][1][1], q[i][1][2], q[i][2]>>]

\* try_place_ship_and_continue(0) up to the first yield, raise or return:
\* [err, yielded, stage, attempt]
try_place_ship_and_continue(num_cols, num_rows, ship_lengths) ==
    IF 0 >= Len(ship_lengths)
    THEN LET res == make_puzzle(num_cols, num_rows, ship_lengths)
         IN  [err |-> res.err, yielded |-> res.puzzle,
              stage |-> "make_puzzle", attempt |-> None]
    ELSE LET tries == candidates(num_cols, num_rows, ship_lengths[1])
         IN  IF Len(tries) = 0
             THEN [err |-> "", yielded |-> None, stage |-> "return",
                   attempt |-> None]
             ELSE [err |-> name_error("get_ship_cells"), yielded |-> None,
                   stage |-> "get_ship_cells",
                   attempt |-> Some(<<0, tries[1][1], tries[1][2],
                                      tries[1][3]>>)]

\* g = generate_solved_puzzles(num_cols, num_rows, ship_lengths): nothing of
\* the body runs before the first next(g)
InitGenerate ==
    \E nc \in 0 .. MaxCols, nr \in 0 .. MaxRows :
        \E lengths \in {<<>>} \cup SeqsUpTo(1 .. MaxShipLength, 2) :
            /\ args = Args(nc, nr, lengths, None, None, None, None, None)
            /\ pc = "created"
            /\ puzzle = None
            /\ op = "generate_solved_puzzles"
            /\ err = ""
            /\ report = None
            /\ gen = Some([yielded |-> <<>>, stage |-> "", attempt |-> None])
            /\ grid = None

\* next(g) on the new generator: it yields a puzzle and is suspended, or it
\* raises or returns and is finished
GenNext ==
    /\ pc = "created"
    /\ LET res == try_place_ship_and_continue(args.num_cols, args.num_rows,
                                              args.ship_lengths)
       IN  /\ err' = res.err
           /\ puzzle' = res.yielded
           /\ pc' = IF IsNone(res.yielded) THEN "finished" ELSE "suspended"
           /\ gen' = Some([yielded |-> Get(gen).yielded \o res.yielded,
                           stage |-> res.stage, attempt |-> res.attempt])
    /\ op' = "next"
    /\ UNCHANGED <<args, report, grid>>

NextGenerate == GenNext

SpecGenerate == InitGenerate /\ [][NextGenerate]_vars

-----------------------------------------------------------------------------
(* Properties of generate_solved_puzzles, checked under SpecGenerate         *)

\* the assignments of an in-bounds position and orientation to every fleet
\* entry (one orientation for a ship of length 1) in which no two ships
\* overlap or touch
SolvedAssignments ==
    {ships \in SeqsOf(GridCells \X BOOLEAN, Len(args.ship_lengths)) :
        LET placed == [i \in DOMAIN ships |->
                          <<ships[i][1][1], ships[i][1][2], ships[i][2]>>]
            extent(i) == ShipExtent(args.ship_lengths[i], placed[i])
        IN  /\ \A i \in DOMAIN ships :
                   /\ extent(i) \subseteq GridCells
                   /\ args.ship_lengths[i] = 1 => ships[i][2]
            /\ \A i, j \in DOMAIN ships :
                   i < j => ~Touching(extent(i), extent(j))}

\* the cells an assignment covers
AssignmentCells(ships) ==
    UNION {ShipExtent(args.ship_lengths[i],
                      <<ships[i][1][1], ships[i][1][2], ships[i][2]>>) :
              i \in DOMAIN ships}

\* the generator has run to its end, on a grid with at least one cell
GeneratorDone ==
    /\ op = "next"
    /\ pc = "finished"
    /\ args.num_cols >= 1
    /\ args.num_rows >= 1

\* C21: generate_solved_puzzles yields exactly one puzzle for each assignment
\* of in-bounds, non-overlapping, non-adjacent positions to the fleet, and
\* nothing else.
C21_OnePuzzlePerAssignment ==
    GeneratorDone =>
        /\ err = ""
        /\ Len(Get(gen).yielded) = Cardinality(SolvedAssignments)
        /\ \A i \in DOMAIN Get(gen).yielded :
               \E ships \in SolvedAssignments :
                   \A cell \in GridCells :
                       is_occupied(Get(gen).yielded[i].known_grid.grid[cell])
                           <=> cell \in AssignmentCells(ships)

\* C22: every puzzle the generator makes is successfully constructed, has a
\* known grid with OccupiedUnknown on the cells of the placed ships and Water
\* on every other cell, and is valid.
C22_YieldedPuzzlesWellFormed ==
    (op = "next" /\ Get(gen).stage = "make_puzzle"
        /\ args.num_cols >= 1 /\ args.num_rows >= 1) =>
        /\ err = ""
        /\ ~IsNone(puzzle)
        /\ \A cell \in GridCells :
               Get(puzzle).known_grid.grid[cell] \in {OccupiedUnknown, Water}
        /\ Cardinality({cell \in GridCells :
               Get(puzzle).known_grid.grid[cell] = OccupiedUnknown})
               = SumSeq(args.ship_lengths, 1)
        /\ is_valid(Get(puzzle))

occupied_cells ==
    IF name_error("occupied_cells") = "" THEN Some({}) ELSE None

\* the cells of the ships on the search path when next(g) has returned: those
\* of the puzzle it yielded, none when the enumeration is exhausted
PathCells ==
    IF pc = "suspended"
    THEN {cell \in GridCells :
             is_occupied(Get(puzzle).known_grid.grid[cell])}
    ELSE {}

\* C36: during generation the occupied-cell set equals the union of the cells
\* of the ships placed on the search path, and it is empty when the
\* enumeration is exhausted.
C36_OccupiedCellsFollowPath ==
    (op = "next" /\ args.num_cols >= 1 /\ args.num_rows >= 1) =>
        /\ err = ""
        /\ ~IsNone(occupied_cells)
        /\ Get(occupied_cells) = PathCells

\* ------------------------------------------------------------------------
\* Puzzle.can_place_ship as a call on a puzzle in play
\* ------------------------------------------------------------------------

\* Puzzle.can_place_ship with its names as written: the first test returns
\* False for a negative start_r, and otherwise evaluates self.num_rows(), a
\* call of the int property num_rows
Puzzle_can_place_ship(self, ship_length, start_c, start_r, direction) ==
    IF 0 > start_r THEN [err |-> "", result |-> Some(FALSE)]
    ELSE IF call_error("num_rows") # ""
    THEN [err |-> call_error("num_rows"), result |-> None]
    ELSE [err |-> "",
          result |-> Some(can_place_ship(self, ship_length, start_c, start_r,
                                         direction))]

\* p.can_place_ship(ship_length, start_c, start_r, direction)
CanPlaceShip ==
    /\ pc = "ok"
    /\ \E ship_length \in 1 .. MaxShipLength,
          start \in ShipStarts(args.num_cols, args.num_rows) :
           LET res == Puzzle_can_place_ship(Get(puzzle), ship_length,
                                            start[1], start[2], start[3])
           IN  /\ err' = res.err
               /\ report' = Some([call |-> <<ship_length, start[1], start[2],
                                             start[3]>>,
                                  result |-> res.result])
    /\ op' = "can_place_ship"
    /\ UNCHANGED <<args, pc, puzzle, gen, grid>>

\* p.set_cell(c, r, state) with the two states can_place_ship tells apart
\* from Unknown: Water and an occupied one
SetCellWaterOrOccupied ==
    \E c \in range(0, args.num_cols), r \in range(0, args.num_rows),
       state \in {Water, OccupiedUnknown} :
        SetCellCall(c, r, state)

NextCanPlace == Construct \/ SetCellWaterOrOccupied \/ CanPlaceShip

SpecCanPlace == InitPlaySums /\ [][NextCanPlace]_vars

\* the cells of the ship of a call <<ship_length, start_c, start_r, direction>>
CallCells(call) ==
    {IF call[4] THEN <<call[2] + i, call[3]>> ELSE <<call[2], call[3] + i>> :
        i \in 0 .. call[1] - 1}

\* the cells of the grid next to the ship, orthogonally or diagonally
AdjacentCells(self, call) ==
    {n \in range(0, self.num_cols) \X range(0, self.num_rows) :
        /\ n \notin CallCells(call)
        /\ \E s \in CallCells(call) :
               Abs(n[1] - s[1]) <= 1 /\ Abs(n[2] - s[2]) <= 1}

\* the target sum of the ship's line minus the cells of that line that are
\* occupied outside the ship
RemainingBudget(self, call) ==
    LET line == IF call[4]
                THEN {<<c, call[3]>> : c \in range(0, self.num_cols)}
                ELSE {<<call[2], r>> : r \in range(0, self.num_rows)}
        target == IF call[4] THEN get_row_sum(self, call[3])
                  ELSE get_col_sum(self, call[2])
    IN  target - Cardinality({n \in line \ CallCells(call) :
                                 is_occupied(get_cell(self, n[1], n[2]))})

CanPlaceExpected(self, call) ==
    /\ CallCells(call) \subseteq
           range(0, self.num_cols) \X range(0, self.num_rows)
    /\ RemainingBudget(self, call) >= call[1]
    /\ \A s \in CallCells(call) : ~is_water(get_cell(self, s[1], s[2]))
    /\ \A n \in AdjacentCells(self, call) :
           ~is_occupied(get_cell(self, n[1], n[2]))

\* C24: can_place_ship raises for no input and returns True exactly when the
\* ship lies inside the grid, the target sum of its line minus the cells
\* occupied in that line outside the ship is at least its length, none of its
\* cells is Water and none of the cells adjacent to it is occupied.
C24_CanPlaceShipIff ==
    op = "can_place_ship" =>
        /\ err = ""
        /\ Get(report).result
               = Some(CanPlaceExpected(Get(puzzle), Get(report).call))



\* ------------------------------------------------------------------------
\* The caller's grids and the fields of a puzzle in play
\* ------------------------------------------------------------------------

\* grid.set(c, r, state) by the caller, on a grid it has passed to the
\* constructor: every name of that object shows the write
CallerSet ==
    /\ pc = "ok"
    /\ \E name \in {"known_grid", "curr_grid"},
          c \in range(0, args.num_cols), r \in range(0, args.num_rows),
          state \in {Water} :
           /\ ~IsNone(args[name])
           /\ LET written == set(Get(args[name]), c, r, state)
              IN  /\ args' = [args EXCEPT ![name] = Some(written)]
                  /\ puzzle' = Some([Get(puzzle) EXCEPT
                         !.known_grid =
                             IF grid_objects(args).known_grid = name
                             THEN written ELSE @,
                         !.curr_grid =
                             IF grid_objects(args).curr_grid = name
                             THEN written ELSE @])
    /\ op' = "CellGrid.set"
    /\ err' = ""
    /\ UNCHANGED <<pc, report, gen, grid>>

\* puzzles given by sums, with or without a known_grid argument that has its
\* corner cell set and with or without a blank curr_grid argument
InitFrame ==
    \E d \in {<<1, 1>>, <<2, 1>>} :
        \E cs \in SeqsOf(0 .. d[2], d[1]), rs \in SeqsOf(0 .. d[1], d[2]) :
            /\ SumSeq(cs, 1) = SumSeq(rs, 1)
            /\ \E kg \in {None} \cup
                          {Some(set(CellGrid(d[1], d[2]), 0, 0, s)) :
                              s \in {Water, OccupiedUnknown}},
                  cg \in {None, Some(CellGrid(d[1], d[2]))} :
                   InitWith(Args(d[1], d[2], <<1>>, Some(cs), Some(rs),
                                 kg, cg, None))

NextFrame == Construct \/ SetCell \/ SolveStep \/ DoStep \/ CallerSet

SpecFrame == InitFrame /\ [][NextFrame]_vars

\* the cells in which two grids differ
ChangedCells(g, h) == {cell \in DOMAIN g.grid : g.grid[cell] # h.grid[cell]}

\* everything of a puzzle but its current grid
FixedFields(self) ==
    [num_cols |-> self.num_cols, num_rows |-> self.num_rows,
     ship_lengths |-> self.ship_lengths, col_sums |-> self.col_sums,
     row_sums |-> self.row_sums, known_grid |-> self.known_grid,
     solution_grid |-> self.solution_grid]

\* C25: a set_cell call changes at most one cell of the current grid and a
\* do_step call only cells its report lists; neither changes num_cols,
\* num_rows, ship_lengths, col_sums, row_sums, the known grid, the solution
\* grid or a grid the caller passed to the constructor (so with the default
\* curr_grid the known grid keeps its cells), and a later write of the caller
\* to such a grid leaves the puzzle as it is.
C25_OnlyCurrentGridChanges ==
    [][pc = "ok" =>
        /\ op' \in {"set_cell", "do_step"} =>
               /\ FixedFields(Get(puzzle')) = FixedFields(Get(puzzle))
               /\ args' = args
               /\ Get(puzzle').curr_grid.num_cols = Get(puzzle).curr_grid.num_cols
               /\ Get(puzzle').curr_grid.num_rows = Get(puzzle).curr_grid.num_rows
        /\ op' = "set_cell" =>
               Cardinality(ChangedCells(Get(puzzle).curr_grid,
                                        Get(puzzle').curr_grid)) <= 1
        /\ op' = "do_step" =>
               ChangedCells(Get(puzzle).curr_grid, Get(puzzle').curr_grid)
                   \subseteq ListedCells(Get(report))
        /\ op' = "CellGrid.set" => puzzle' = puzzle]_vars

\* a set_cell call has written a cell of a puzzle built with the default
\* curr_grid from a known grid the caller has changed since
C25_Witness ==
    /\ op = "set_cell"
    /\ err = ""
    /\ IsNone(args.curr_grid)
    /\ ~IsNone(args.known_grid)
    /\ Get(puzzle).curr_grid # Get(puzzle).known_grid
    /\ Get(args.known_grid) # Get(puzzle).known_grid



\* ------------------------------------------------------------------------
\* A CellGrid on its own
\* ------------------------------------------------------------------------

\* CellGrid.get: [err, result]
CellGrid_get(g, c, r) ==
    IF check_in_range(g, c, r) # ""
    THEN [err |-> check_in_range(g, c, r), result |-> None]
    ELSE [err |-> "", result |-> Some(get(g, c, r))]

\* CellGrid.set writing whatever the cell holds
CellGrid_set_unconditional(g, c, r, state, expected_state) ==
    IF check_in_range(g, c, r) # ""
    THEN [err |-> check_in_range(g, c, r), grid |-> g, result |-> None]
    ELSE [err |-> "", grid |-> set(g, c, r, state), result |-> Some(TRUE)]

\* CellGrid.set: [err, grid, result]; expected_state is None when the
\* argument is left out
CellGrid_set(g, c, r, state, expected_state) ==
    IF check_in_range(g, c, r) # ""
    THEN [err |-> check_in_range(g, c, r), grid |-> g, result |-> None]
    ELSE IF ~IsNone(expected_state) /\ get(g, c, r) # Get(expected_state)
    THEN [err |-> "", grid |-> g, result |-> Some(FALSE)]
    ELSE [err |-> "", grid |-> set(g, c, r, state), result |-> Some(TRUE)]

\* the sizes of the grids created and the states written to them
GridDims == (0 .. 2) \X (0 .. 2)

GridStates == {Unknown, Water, OccupiedWhole}

InitGrid ==
    \E d \in GridDims :
        /\ args = Args(d[1], d[2], <<>>, None, None, None, None, None)
        /\ pc = "new"
        /\ puzzle = None
        /\ op = ""
        /\ err = ""
        /\ report = None
        /\ gen = None
        /\ grid = None

\* grid = CellGrid(num_cols, num_rows)
GridNew ==
    /\ pc = "new"
    /\ err' = CellGrid__init__error(args.num_cols, args.num_rows)
    /\ grid' = IF err' = "" THEN Some(CellGrid(args.num_cols, args.num_rows))
               ELSE None
    /\ pc' = IF err' = "" THEN "ok" ELSE "error"
    /\ op' = "CellGrid"
    /\ UNCHANGED <<args, puzzle, report, gen>>

\* grid.get(c, r)
GridGet ==
    /\ pc = "ok"
    /\ \E c \in (-1) .. args.num_cols, r \in (-1) .. args.num_rows :
           LET res == CellGrid_get(Get(grid), c, r)
           IN  /\ err' = res.err
               /\ report' = Some([call |-> <<c, r>>, result |-> res.result])
    /\ op' = "get"
    /\ UNCHANGED <<args, pc, puzzle, gen, grid>>

\* grid.set(c, r, state) and grid.set(c, r, state, expected_state)
GridSet ==
    /\ pc = "ok"
    /\ \E c \in (-1) .. args.num_cols, r \in (-1) .. args.num_rows,
          state \in GridStates,
          expected_state \in {None} \cup {Some(s) : s \in GridStates} :
           LET res == CellGrid_set(Get(grid), c, r, state, expected_state)
           IN  /\ err' = res.err
               /\ grid' = Some(res.grid)
               /\ report' = Some([call |-> <<c, r, state, expected_state>>,
                                  result |-> res.result])
    /\ op' = "set"
    /\ UNCHANGED <<args, pc, puzzle, gen>>

NextGrid == GridNew \/ GridGet \/ GridSet

SpecGrid == InitGrid /\ [][NextGrid]_vars

\* the cell <<c, r>> of a call lies in the grid
CallInRange(call) ==
    /\ 0 <= call[1] /\ call[1] < args.num_cols
    /\ 0 <= call[2] /\ call[2] < args.num_rows

\* C26: a new grid is Unknown everywhere; get and set with c or r outside
\* the grid raise and leave the grid unchanged; in range, get returns the
\* cell, set without expected writes the cell and returns True, and set with
\* expected writes and returns True if the cell equals expected and otherwise
\* returns False and leaves the grid unchanged; no other cell changes.
C26_GridGetSet ==
    [][/\ op' = "CellGrid" /\ err' = "" =>
              \A cell \in DOMAIN Get(grid').grid :
                  Get(grid').grid[cell] = Unknown
       /\ op' \in {"get", "set"} =>
              LET call == Get(report').call
                  result == Get(report').result
                  cell == <<call[1], call[2]>>
                  before == Get(grid).grid
                  after == Get(grid').grid
              IN  IF ~CallInRange(call)
                  THEN err' # "" /\ grid' = grid
                  ELSE /\ err' = ""
                       /\ op' = "get" =>
                              result = Some(before[cell]) /\ grid' = grid
                       /\ op' = "set" =>
                              IF IsNone(call[4]) \/ before[cell] = Get(call[4])
                              THEN /\ result = Some(TRUE)
                                   /\ after = [before EXCEPT ![cell] = call[3]]
                              ELSE /\ result = Some(FALSE)
                                   /\ grid' = grid]_vars

\* a set with an expected state other than the cell's has returned False
C26_Witness ==
    /\ op = "set"
    /\ err = ""
    /\ Get(report).result = Some(FALSE)
    /\ CallInRange(Get(report).call)
    /\ Get(grid).grid[<<Get(report).call[1], Get(report).call[2]>>]
           # Get(Get(report).call[4])



\* ------------------------------------------------------------------------
\* CellState: members, symbols and predicates
\* ------------------------------------------------------------------------

\* CellState.__members__: name and value, in the order of definition
Members ==
    <<<<Unknown, ".">>, <<Water, "w">>, <<OccupiedUnknown, "#">>,
      <<OccupiedWhole, "O">>, <<OccupiedMid, "=">>, <<OccupiedEndLeft, "<">>,
      <<OccupiedEndUp, "^">>, <<OccupiedEndRight, ">">>,
      <<OccupiedEndDown, "v">>>>

\* symbol returning the name of the member
symbol_name(s) == s

\* CellState.symbol: self.value
symbol(s) == Members[CHOOSE i \in DOMAIN Members : Members[i][1] = s][2]

\* the loop of from_symbol from member i on
RECURSIVE from_symbol_loop(_, _)
from_symbol_loop(sym, i) ==
    IF i > Len(Members) THEN None
    ELSE IF Members[i][2] = sym THEN Some(Members[i][1])
    ELSE from_symbol_loop(sym, i + 1)

\* CellState.from_symbol: the first member with that value, else None
from_symbol(sym) == from_symbol_loop(sym, 1)

\* the six predicates of a CellState
predicates(s) ==
    [is_unknown |-> is_unknown(s), is_water |-> is_water(s),
     is_occupied |-> is_occupied(s), is_mid |-> is_mid(s),
     is_whole |-> is_whole(s), is_end |-> is_end(s)]

\* the nine symbols
Symbols == {".", "w", "#", "O", "=", "<", "^", ">", "v"}

\* strings handed to from_symbol: the symbols, other single characters, the
\* empty string, longer strings and member names
SymbolInputs ==
    Symbols \cup
    {"?", "", " ", "W", "o", "0", "V", "-", "x", "X", "*", "~", "+", "|",
     "_", "@", ",", ":", ";", "!", "$", "%", "&", "/", "(", ")", "[", "]",
     "a", "b", "s", "u", "1", "..", "ww", "w ", " w", ".w", "##", "<>",
     "Water", "Unknown", "OccupiedUnknown", "OccupiedMid", "None"}

\* the input is a CellState or a string
InitCellState ==
    /\ \/ \E s \in CellState : args = [kind |-> "state", value |-> s]
       \/ \E sym \in SymbolInputs : args = [kind |-> "symbol", value |-> sym]
    /\ pc = "new"
    /\ puzzle = None
    /\ op = ""
    /\ err = ""
    /\ report = None
    /\ gen = None
    /\ grid = None

\* state.symbol()
Symbol ==
    /\ pc = "new"
    /\ args.kind = "state"
    /\ report' = Some([of |-> args.value, result |-> symbol(args.value)])
    /\ op' = "symbol"
    /\ pc' = "ok"
    /\ UNCHANGED <<args, puzzle, err, gen, grid>>

\* CellState.from_symbol(sym), of an input string or of the symbol just
\* returned
FromSymbol ==
    /\ \/ pc = "new" /\ args.kind = "symbol"
          /\ report' = Some([of |-> args.value,
                             result |-> from_symbol(args.value)])
       \/ op = "symbol"
          /\ report' = Some([of |-> Get(report).result,
                             result |-> from_symbol(Get(report).result)])
    /\ op' = "from_symbol"
    /\ pc' = "ok"
    /\ UNCHANGED <<args, puzzle, err, gen, grid>>

\* state.is_unknown(), is_water(), is_occupied(), is_mid(), is_whole() and
\* is_end()
Predicates ==
    /\ pc = "new"
    /\ args.kind = "state"
    /\ report' = Some([of |-> args.value, result |-> predicates(args.value)])
    /\ op' = "predicates"
    /\ pc' = "ok"
    /\ UNCHANGED <<args, puzzle, err, gen, grid>>

NextCellState == Symbol \/ FromSymbol \/ Predicates

SpecCellState == InitCellState /\ [][NextCellState]_vars

\* C27: from_symbol of the symbol of a state returns that state, and
\* from_symbol of a string that is none of the nine symbols returns None;
\* neither raises.
C27_SymbolRoundTrip ==
    op = "from_symbol" =>
        /\ err = ""
        /\ args.kind = "state" => Get(report).result = Some(args.value)
        /\ Get(report).of \notin Symbols => Get(report).result = None

\* from_symbol has returned the state whose symbol it was given
C27_Witness ==
    /\ op = "from_symbol"
    /\ args.kind = "state"
    /\ Get(report).of \in Symbols
    /\ Get(report).result = Some(args.value)

\* from_symbol has returned None for a string that is no symbol
C27_WitnessNone ==
    /\ op = "from_symbol"
    /\ args.kind = "symbol"
    /\ Get(report).of = "?"
    /\ Get(report).result = None

\* the number of predicates of a set that are true
TrueCount(result, names) == Cardinality({n \in names : result[n]})

\* C28: of is_unknown, is_water and is_occupied exactly one is true;
\* is_occupied is true exactly for OccupiedUnknown, OccupiedWhole,
\* OccupiedMid and the four OccupiedEnd values; of is_whole, is_mid and
\* is_end at most one is true, and none for OccupiedUnknown.
C28_PredicatesPartition ==
    op = "predicates" =>
        LET s == Get(report).of
            result == Get(report).result
        IN  /\ TrueCount(result, {"is_unknown", "is_water", "is_occupied"}) = 1
            /\ result.is_occupied <=>
                   s \in {OccupiedUnknown, OccupiedWhole, OccupiedMid,
                          OccupiedEndLeft, OccupiedEndUp, OccupiedEndRight,
                          OccupiedEndDown}
            /\ TrueCount(result, {"is_whole", "is_mid", "is_end"}) <= 1
            /\ s = OccupiedUnknown =>
                   TrueCount(result, {"is_whole", "is_mid", "is_end"}) = 0

\* the predicates of OccupiedUnknown: occupied, and neither whole, mid nor end
C28_Witness ==
    /\ op = "predicates"
    /\ Get(report).of = OccupiedUnknown
    /\ Get(report).result.is_occupied
    /\ TrueCount(Get(report).result, {"is_whole", "is_mid", "is_end"}) = 0



\* ------------------------------------------------------------------------
\* Rules 1 and 2 of the solver
\* ------------------------------------------------------------------------

\* the lines of the grid in the order columns 0, 1, ... then rows 0, 1, ...
LineOrder(self) ==
    [i \in 1 .. self.num_cols + self.num_rows |->
        IF i <= self.num_cols THEN <<"col", i - 1>>
        ELSE <<"row", i - 1 - self.num_cols>>]

LineCells(self, line) ==
    IF line[1] = "col"
    THEN {<<line[2], r>> : r \in range(0, self.num_rows)}
    ELSE {<<c, line[2]>> : c \in range(0, self.num_cols)}

LineTarget(self, line) ==
    IF line[1] = "col" THEN self.col_sums[line[2] + 1]
    ELSE self.row_sums[line[2] + 1]

LineUnknown(self, line) ==
    {cell \in LineCells(self, line) : self.curr_grid.grid[cell] = Unknown}

LineOccupied(self, line) ==
    {cell \in LineCells(self, line) :
        self.curr_grid.grid[cell] \in OccupiedStates}

\* the assignments of state to the Unknown cells of the first line of
\* LineOrder whose index is in qualifying, none if there is no such line
FirstLineAssignments(self, qualifying, state) ==
    IF qualifying = {} THEN {}
    ELSE LET first == CHOOSE i \in qualifying : \A j \in qualifying : i <= j
         IN  {<<cell[1], cell[2], state>> :
                 cell \in LineUnknown(self, LineOrder(self)[first])}

\* the assignments of a report as a set, with their number
Assigned(rep) == {rep.solved_cells[i] : i \in DOMAIN rep.solved_cells}

OccupiedTotalReached(self) ==
    {i \in DOMAIN LineOrder(self) :
        /\ LineUnknown(self, LineOrder(self)[i]) # {}
        /\ Cardinality(LineOccupied(self, LineOrder(self)[i]))
               = LineTarget(self, LineOrder(self)[i])}

UnknownsTotalReached(self) ==
    {i \in DOMAIN LineOrder(self) :
        /\ LineUnknown(self, LineOrder(self)[i]) # {}
        /\ Cardinality(LineOccupied(self, LineOrder(self)[i]))
             + Cardinality(LineUnknown(self, LineOrder(self)[i]))
               = LineTarget(self, LineOrder(self)[i])}

CurrState(self, cell) == self.curr_grid.grid[cell]

\* the cells of the grid next to a cell: orthogonally, diagonally, and both
Orthogonal(self, cell) ==
    {n \in DOMAIN self.curr_grid.grid :
        Abs(n[1] - cell[1]) + Abs(n[2] - cell[2]) = 1}

Diagonal(self, cell) ==
    {n \in DOMAIN self.curr_grid.grid :
        Abs(n[1] - cell[1]) = 1 /\ Abs(n[2] - cell[2]) = 1}

Around(self, cell) == Orthogonal(self, cell) \cup Diagonal(self, cell)

UnknownOf(self, cells) == {n \in cells : CurrState(self, n) = Unknown}

OccupiedOf(self, cells) == {n \in cells : CurrState(self, n) \in OccupiedStates}

\* the first cell of a set in column-major order
FirstColumnMajor(cells) ==
    CHOOSE x \in cells :
        \A y \in cells : x[1] < y[1] \/ (x[1] = y[1] /\ x[2] <= y[2])

\* the end marker of a cell whose only occupied neighbour is n
EndMarkerAwayFrom(cell, n) ==
    IF n[1] = cell[1] - 1 THEN OccupiedEndRight
    ELSE IF n[2] = cell[2] - 1 THEN OccupiedEndDown
    ELSE IF n[1] = cell[1] + 1 THEN OccupiedEndLeft
    ELSE OccupiedEndUp

\* the refinements rule 3 may give an OccupiedUnknown cell: none or one
Refinements(self, cell) ==
    LET neighbours == Orthogonal(self, cell)
        occupied == OccupiedOf(self, neighbours)
    IN  IF \A n \in neighbours : CurrState(self, n) = Water
        THEN {OccupiedWhole}
        ELSE IF Cardinality(occupied) = 2 THEN {OccupiedMid}
        ELSE IF Cardinality(occupied) = 1 /\ UnknownOf(self, neighbours) = {}
        THEN {EndMarkerAwayFrom(cell, CHOOSE n \in occupied : TRUE)}
        ELSE {}

RefinableCells(self) ==
    {cell \in DOMAIN self.curr_grid.grid :
        /\ CurrState(self, cell) = OccupiedUnknown
        /\ Refinements(self, cell) # {}}

EndMarkers == {OccupiedEndLeft, OccupiedEndUp, OccupiedEndRight,
               OccupiedEndDown}

AssignmentsTo(cells, state) == {<<n[1], n[2], state>> : n \in cells}

\* the occupied cells with an Unknown diagonal neighbour
DiagonalCandidates(self) ==
    {cell \in DOMAIN self.curr_grid.grid :
        /\ CurrState(self, cell) \in OccupiedStates
        /\ UnknownOf(self, Diagonal(self, cell)) # {}}

WholeCandidates(self) ==
    {cell \in DOMAIN self.curr_grid.grid :
        /\ CurrState(self, cell) = OccupiedWhole
        /\ UnknownOf(self, Around(self, cell)) # {}}

ContinuesAt(self, cell) ==
    CASE CurrState(self, cell) = OccupiedEndLeft -> <<cell[1] + 1, cell[2]>>
      [] CurrState(self, cell) = OccupiedEndUp -> <<cell[1], cell[2] + 1>>
      [] CurrState(self, cell) = OccupiedEndRight -> <<cell[1] - 1, cell[2]>>
      [] CurrState(self, cell) = OccupiedEndDown -> <<cell[1], cell[2] - 1>>

\* what rule 6 deduces from the end marker on a cell
EndDeductions(self, cell) ==
    AssignmentsTo(UnknownOf(self, Orthogonal(self, cell)
                                      \cap {ContinuesAt(self, cell)}),
                  OccupiedUnknown)
    \cup AssignmentsTo(UnknownOf(self, Orthogonal(self, cell)
                                           \ {ContinuesAt(self, cell)}),
                       Water)

EndCandidates(self) ==
    {cell \in DOMAIN self.curr_grid.grid :
        /\ CurrState(self, cell) \in EndMarkers
        /\ EndDeductions(self, cell) # {}}

FleetLengths(self) == {self.ship_lengths[i] : i \in DOMAIN self.ship_lengths}

\* the number of ships of a length in the fleet
FleetCount(self, length) ==
    Cardinality({i \in DOMAIN self.ship_lengths :
                    self.ship_lengths[i] = length})

\* the cells of the placement <<c, r, direction>> of a ship
PlacementCells(length, t) ==
    {IF t[3] THEN <<t[1] + i, t[2]>> ELSE <<t[1], t[2] + i>> :
        i \in 0 .. length - 1}

\* the placements of a length that satisfy can_place_ship
Candidates(self, length) ==
    {t \in range(0, self.num_cols) \X range(0, self.num_rows) \X BOOLEAN :
        can_place_ship(self, length, t[1], t[2], t[3])}

\* the candidates that hold an Unknown cell
OpenCandidates(self, length) ==
    {t \in Candidates(self, length) :
        UnknownOf(self, PlacementCells(length, t)) # {}}

\* the first placement of a set in the order of the loops: columns, then
\* rows, then row-aligned before column-aligned
FirstPlacement(ts) ==
    CHOOSE x \in ts :
        \A y \in ts :
            \/ x[1] < y[1]
            \/ x[1] = y[1] /\ x[2] < y[2]
            \/ x[1] = y[1] /\ x[2] = y[2] /\ (x[3] \/ ~y[3])

\* the ships of a length that stand complete on the current grid: all cells
\* occupied, and Water or the border of the grid beyond both ends
ShipsOnGrid(self, length) ==
    {PlacementCells(length, t) :
        t \in {u \in range(0, self.num_cols) \X range(0, self.num_rows)
                       \X BOOLEAN :
                 /\ PlacementCells(length, u) \subseteq
                        DOMAIN self.curr_grid.grid
                 /\ \A cell \in PlacementCells(length, u) :
                        CurrState(self, cell) \in OccupiedStates
                 /\ \A cell \in
                        {IF u[3] THEN <<u[1] - 1, u[2]>>
                                 ELSE <<u[1], u[2] - 1>>,
                         IF u[3] THEN <<u[1] + length, u[2]>>
                                 ELSE <<u[1], u[2] + length>>}
                            \cap DOMAIN self.curr_grid.grid :
                        CurrState(self, cell) = Water}}

\* the number of ships of a length still to be placed
StillToPlace(self, length) ==
    FleetCount(self, length) - Cardinality(ShipsOnGrid(self, length))

\* the lengths with as many candidates as the fleet has ships of the length,
\* one of the candidates holding an Unknown cell
FiringLengths(self) ==
    {length \in FleetLengths(self) :
        /\ Cardinality(Candidates(self, length)) = FleetCount(self, length)
        /\ OpenCandidates(self, length) # {}}

\* the same with the number of ships still to be placed
FiringLengthsStillToPlace(self) ==
    {length \in FleetLengths(self) :
        /\ Cardinality(Candidates(self, length)) = StillToPlace(self, length)
        /\ OpenCandidates(self, length) # {}}

\* the report of rule 7 is what the claim says for the given firing lengths
PlacesFirstCandidate(self, rep, firing) ==
    IF firing = {} THEN rep.solved_cells = <<>>
    ELSE \E length \in firing :
             /\ Assigned(rep) =
                    AssignmentsTo(PlacementCells(length,
                        FirstPlacement(OpenCandidates(self, length))),
                        OccupiedUnknown)
             /\ Len(rep.solved_cells) = length

SolutionCover == UNION {Extent(i) : i \in DOMAIN args.ship_lengths}

\* the covers of the placements of the fleet, no two ships touching, that
\* agree with the sums of the puzzle and with its known cells
ConsistentCovers(self) ==
    {AssignmentCells(ships) :
        ships \in {s \in SolvedAssignments :
            LET cover == AssignmentCells(s)
            IN  /\ \A c \in range(0, self.num_cols) :
                       Cardinality({cell \in cover : cell[1] = c})
                           = get_col_sum(self, c)
                /\ \A r \in range(0, self.num_rows) :
                       Cardinality({cell \in cover : cell[2] = r})
                           = get_row_sum(self, r)
                /\ \A cell \in GridCells :
                       /\ is_water(self.known_grid.grid[cell])
                              => cell \notin cover
                       /\ is_occupied(self.known_grid.grid[cell])
                              => cell \in cover}}

\* no placement other than the solution agrees with the sums and known cells
OnlySolution(self) == ConsistentCovers(self) \subseteq {SolutionCover}

CountOf(self, state) ==
    Cardinality({cell \in DOMAIN self.curr_grid.grid :
                    CurrState(self, cell) = state})

\* the pair (Unknown cells, OccupiedUnknown cells) of q is below that of p in
\* lexicographic order
MeasureDecreases(p, q) ==
    \/ CountOf(q, Unknown) < CountOf(p, Unknown)
    \/ /\ CountOf(q, Unknown) = CountOf(p, Unknown)
       /\ CountOf(q, OccupiedUnknown) < CountOf(p, OccupiedUnknown)

C40_WitnessInvalid ==
    /\ pc = "ok"
    /\ op = "solve_step"
    /\ ~is_valid(Get(puzzle))
    /\ Get(report).desc = "puzzle is invalid"

=============================================================================
